---- MODULE Spec2Model ----
(***************************************************************************)
(* OSC-Controller: the threaded OSC server of core/osc_server.py.          *)
(*                                                                         *)
(* Two execution contexts are modelled:                                    *)
(*   - the host's main thread, which runs start_server, stop_server and    *)
(*     the timer step osc_timer_step_extended, one call at a time;         *)
(*   - the background threads: one serve() loop per successfully started   *)
(*     server, and the request handlers that ThreadingOSCUDPServer spawns  *)
(*     (one osc_handler call per received datagram).                       *)
(* stop_server yields to the background threads in its time.sleep(0.25),   *)
(* and the timer step yields between two get_nowait() calls and between    *)
(* its resolution loop and its apply loop, so both are split at those      *)
(* points.                                                                 *)
(*                                                                         *)
(* Six specifications share the actions:                                   *)
(*   - Spec: the lifecycle (start, stop, listeners, timer step) with one   *)
(*     sender and one rule;                                                *)
(*   - RouteSpec: a running server, the scene's rules drawn from Configs   *)
(*     and the messages from Payloads: routing and resolution;             *)
(*   - DrainSpec: a running server whose queue holds a burst of messages;  *)
(*   - EditSpec: a running server whose rules the user adds, removes and   *)
(*     edits between the timer steps;                                      *)
(*   - MapSpec: a running server with one queued message and rules of      *)
(*     both kinds over every order of the range ends: map_value;           *)
(*   - TimerSpec: the Start and Stop operators and the host's list of      *)
(*     scheduled timer callbacks, under fair scheduling.                   *)
(* Numbers are in tenths and map_value is computed in exact rational       *)
(* arithmetic: the rounding of the float operations is not modelled.       *)
(***************************************************************************)
EXTENDS Integers, Naturals, Sequences, FiniteSets, Bags

\* ---------------------------------------------------------------- bounds
\* Servers (sockets) that start_server may create in one behaviour.
MaxStarts == 2
\* Datagrams the listeners may receive in one behaviour.
MaxMsgs == 2
\* max_per_tick of osc_timer_step_extended.  It is 100 in the source; the model
\* scales it down so that the messages of one behaviour can reach it.
max_per_tick == 2

\* ---------------------------------------------------------------- program constants
\* utils/constants.py: DEFAULT_OSC_PORT.
DEFAULT_OSC_PORT == 9000
\* queue.Queue() is constructed without a maxsize: maxsize = 0, "infinite".
QueueMaxsize == 0

\* The UDP ports the caller passes to start_server: the default and one other.
Ports == {DEFAULT_OSC_PORT, DEFAULT_OSC_PORT + 1}
Servers == 1 .. MaxStarts
\* Python's None for the handle fields of OSCState.
None == 0

VARIABLES
    running,            \* osc_state.running
    server,             \* osc_state.server: id of the server object, or None
    dispatcher,         \* osc_state.dispatcher: id of the dispatcher, or None
    server_thread,      \* osc_state.server_thread: id of the thread, or None
    msg_queue,          \* osc_state.msg_queue: sequence of messages
    pythonosc_imported, \* whether the module-level import of python-osc succeeded
    nsrv,               \* number of server objects created so far
    thr,                \* per server k: [pc, port] of its socket and serve() thread
    inflight,           \* bag of datagrams received, whose osc_handler call has not run yet
    nrecv,              \* number of datagrams received since the initial state
    main_pc,            \* main thread: "idle", "stop_sleep", "tick_drain", "tick_apply"
    messages_batch,     \* the timer step's local messages_batch
    npushed,            \* history: number of messages put_nowait has stored
    last_drained,       \* history: push number of the last message get_nowait returned
    last_op,            \* history: last main-thread call and what it returned
    senders,            \* the OSC messages the senders on the network emit
    config,             \* the scene's mapping items, in the order they were added
    table,              \* the timer step's local table
    updates_to_apply,   \* the timer step's local updates_to_apply
    tick_start_queue,   \* history: push numbers queued when the running timer step began
    napplied,           \* history: commands of the last timer step whose apply call returned
    view_updates,       \* history: view_layer.update() calls of the last timer step
    last_build,         \* history: the configuration and the table of the latest table build
    npushed_at_edit,    \* history: messages pushed before the latest change of the rules
    timers,             \* bpy.app.timers: scheduled callbacks of osc_timer_step_extended
    timer_installed     \* the scene's custom property "_osc_timer_installed"

vars == <<running, server, dispatcher, server_thread, msg_queue, pythonosc_imported,
          nsrv, thr, inflight, nrecv, main_pc, messages_batch, npushed, last_drained, last_op,
          senders, config, table, updates_to_apply, tick_start_queue, napplied, view_updates,
          last_build, npushed_at_edit, timers, timer_installed>>

\* The scene and what the timer step computes: left alone by the server code.
host_timers == <<timers, timer_installed>>

scene_and_tick ==
    <<senders, config, table, updates_to_apply, tick_start_queue, napplied, view_updates,
      last_build, npushed_at_edit, timers, timer_installed>>

\* The fields of OSCState.
osc_state == <<running, server, dispatcher, server_thread, msg_queue>>

\* ---------------------------------------------------------------- helpers
\* A received datagram, tagged with the session (the number of the server in
\* osc_state while running was true) during which it was received.
Datagram(sess, p) == [sess |-> sess, address |-> p.address, args |-> p.args]
\* The tuple osc_handler stores, with its push number.
Queued(m, n) == [sess |-> m.sess, seq |-> n, address |-> m.address, args |-> m.args]
\* serve() threads that exist and have not returned.
Alive(k) == k <= nsrv /\ thr[k].pc \in {"check", "handle", "close"}
\* Threads inside the serve loop (between the print and server_close()).
InLoop(k) == k <= nsrv /\ thr[k].pc \in {"check", "handle"}
\* Threads that have read running as true and are inside handle_request().
Serving(k) == k <= nsrv /\ thr[k].pc = "handle"
\* The socket of server k is open from its bind until server_close().
SocketOpen(k) == k <= nsrv /\ thr[k].pc # "done"
\* A port already bound by an open socket of this process cannot be bound again.
PortHeld(p) == \E k \in Servers : SocketOpen(k) /\ thr[k].port = p

\* ---------------------------------------------------------------- data
\* Strings are sequences of characters, so that str.strip() and string equality
\* are computed.  Numbers are counted in tenths (5 is 0.5, 10 is 1.0); the
\* result of map_value is an exact fraction of tenths, [num, den] in lowest
\* terms.  (The rounding of Python's float arithmetic is not modelled.)
Whitespace == {" "}

\* str.strip(): the leading and the trailing whitespace are removed.
RECURSIVE lstrip(_)
lstrip(s) == IF s # <<>> /\ Head(s) \in Whitespace THEN lstrip(Tail(s)) ELSE s
RECURSIVE rstrip(_)
rstrip(s) ==
    IF s # <<>> /\ s[Len(s)] \in Whitespace THEN rstrip(SubSeq(s, 1, Len(s) - 1)) ELSE s
strip(s) == rstrip(lstrip(s))

RECURSIVE GCD(_, _)
GCD(a, b) == IF b = 0 THEN a ELSE GCD(b, a % b)
Abs(a) == IF a < 0 THEN 0 - a ELSE a
\* The fraction n/d (d # 0) in lowest terms with a positive denominator.
Frac(n, d) ==
    LET g == GCD(Abs(n), Abs(d))
        sgn == IF d < 0 THEN 0 - 1 ELSE 1
    IN  [num |-> sgn * (n \div g), den |-> sgn * (d \div g)]

\* An OSC argument: its wire type and its value (tenths for the numeric types).
\* Python: int and float arguments are instances of (float, int); str and bytes
\* are not.
OscInt(n) == [type |-> "int", val |-> n]
OscFloat(n) == [type |-> "float", val |-> n]
OscString(s) == [type |-> "string", val |-> s]
OscBlob(s) == [type |-> "blob", val |-> s]
isinstance_float_int(a) == a.type \in {"float", "int"}

\* An OSC message as the sender emits it.
Payload(address, args) == [address |-> address, args |-> args]

\* ---------------------------------------------------------------- scene configuration
\* properties/scene_props.py: the items of scene.osc_mappings (kind "char") and
\* of scene.osc_generic_mappings (kind "generic").  config lists the items of
\* both collections in the order the user added them; each collection keeps its
\* own items in that order.
GenericOSCMappingItem(address, data_path, invert) ==
    [kind |-> "generic", address |-> address, data_path |-> data_path,
     object_name |-> <<>>, shapekey_name |-> <<>>, armature_name |-> <<>>, bone_name |-> <<>>,
     rotation_axis |-> "X", rotation_mode |-> "EULER",
     min_in |-> 0, max_in |-> 10, min_out |-> 0, max_out |-> 10,
     clamp |-> TRUE, invert |-> invert]

OSCMappingItem(address, shapekey_name, armature_name, bone_name, invert) ==
    [kind |-> "char", address |-> address, data_path |-> <<>>,
     object_name |-> IF shapekey_name = <<>> THEN <<>> ELSE <<"O">>,
     shapekey_name |-> shapekey_name, armature_name |-> armature_name, bone_name |-> bone_name,
     rotation_axis |-> "X", rotation_mode |-> "EULER",
     min_in |-> 0, max_in |-> 10, min_out |-> 0, max_out |-> 10,
     clamp |-> TRUE, invert |-> invert]

\* ---------------------------------------------------------------- core/mapping.py
\* Mutant: the mapping object keeps the address as the item has it.
Mapping_address_as_configured(item, i) ==
    [kind |-> item.kind, rule |-> i,
     address |-> item.address,
     data_path |-> strip(item.data_path),
     object_name |-> strip(item.object_name),
     shapekey_name |-> strip(item.shapekey_name),
     armature_name |-> strip(item.armature_name),
     bone_name |-> strip(item.bone_name),
     rotation_axis |-> item.rotation_axis, rotation_mode |-> item.rotation_mode,
     min_in |-> item.min_in, max_in |-> item.max_in,
     min_out |-> item.min_out, max_out |-> item.max_out,
     clamp |-> item.clamp, invert |-> item.invert]

\* OSCMapping(...) / GenericOSCMapping(...) as build_mapping_table_extended
\* constructs them from an item: the address and the names are stripped.  rule
\* is the position of the item in config (history, not a field of the object).
Mapping(item, i) ==
    [kind |-> item.kind, rule |-> i,
     address |-> strip(item.address),
     data_path |-> strip(item.data_path),
     object_name |-> strip(item.object_name),
     shapekey_name |-> strip(item.shapekey_name),
     armature_name |-> strip(item.armature_name),
     bone_name |-> strip(item.bone_name),
     rotation_axis |-> item.rotation_axis, rotation_mode |-> item.rotation_mode,
     min_in |-> item.min_in, max_in |-> item.max_in,
     min_out |-> item.min_out, max_out |-> item.max_out,
     clamp |-> item.clamp, invert |-> item.invert]

IsChar(m) == m.kind = "char"
IsGeneric(m) == m.kind = "generic"
\* ctx.scene.osc_mappings and ctx.scene.osc_generic_mappings, as mapping objects.
osc_mappings(cfg) == SelectSeq([i \in 1 .. Len(cfg) |-> Mapping(cfg[i], i)], IsChar)
osc_generic_mappings(cfg) == SelectSeq([i \in 1 .. Len(cfg) |-> Mapping(cfg[i], i)], IsGeneric)

\* Mutant: the generic mappings are appended first, the character mappings
\* after them.
build_mapping_table_generic_first(cfg) ==
    LET all == osc_generic_mappings(cfg) \o osc_mappings(cfg)
    IN  [a \in {all[i].address : i \in DOMAIN all} |->
            SelectSeq(all, LAMBDA m : m.address = a)]

\* Mutant: an item that names no target is left out of the table.
build_mapping_table_skips_untargeted(cfg) ==
    LET targeted(m) == \/ IsGeneric(m)
                       \/ m.shapekey_name # <<>>
                       \/ (m.bone_name # <<>> /\ m.armature_name # <<>>)
        all == SelectSeq(osc_mappings(cfg) \o osc_generic_mappings(cfg), targeted)
    IN  [a \in {all[i].address : i \in DOMAIN all} |->
            SelectSeq(all, LAMBDA m : m.address = a)]

\* build_mapping_table_extended(ctx): the character mappings are appended to
\* the list of their address first, the generic mappings after them.
build_mapping_table_extended(cfg) ==
    LET all == osc_mappings(cfg) \o osc_generic_mappings(cfg)
    IN  [a \in {all[i].address : i \in DOMAIN all} |->
            SelectSeq(all, LAMBDA m : m.address = a)]

\* Mutant: map_value without `if self.invert: t = 1.0 - t`.
map_value_ignores_invert(m, v) ==
    LET d0 == m.max_in - m.min_in
        t0 == IF m.max_in # m.min_in THEN Frac(v - m.min_in, d0) ELSE Frac(0, 1)
        t1 == IF ~m.clamp THEN t0
              ELSE IF t0.num < 0 THEN Frac(0, 1)
              ELSE IF t0.num > t0.den THEN Frac(1, 1)
              ELSE t0
    IN  Frac(m.min_out * t1.den + t1.num * (m.max_out - m.min_out), t1.den)

\* Mutant: the clamp is left out.
OSCMapping_map_value_no_clamp(m, v) ==
    LET d0 == m.max_in - m.min_in
        t0 == IF m.max_in # m.min_in THEN Frac(v - m.min_in, d0) ELSE Frac(0, 1)
        t2 == IF m.invert THEN Frac(t0.den - t0.num, t0.den) ELSE t0
    IN  Frac(m.min_out * t2.den + t2.num * (m.max_out - m.min_out), t2.den)

\* Mutant: the inversion is t = -t.
OSCMapping_map_value_negates(m, v) ==
    LET d0 == m.max_in - m.min_in
        t0 == IF m.max_in # m.min_in THEN Frac(v - m.min_in, d0) ELSE Frac(0, 1)
        t1 == IF ~m.clamp THEN t0
              ELSE IF t0.num < 0 THEN Frac(0, 1)
              ELSE IF t0.num > t0.den THEN Frac(1, 1)
              ELSE t0
        t2 == IF m.invert THEN Frac(0 - t1.num, t1.den) ELSE t1
    IN  Frac(m.min_out * t2.den + t2.num * (m.max_out - m.min_out), t2.den)

\* OSCMapping.map_value(self, v).
OSCMapping_map_value(m, v) ==
    LET d0 == m.max_in - m.min_in
        \* t = (v - min_in) / (max_in - min_in), or 0.0
        t0 == IF m.max_in # m.min_in THEN Frac(v - m.min_in, d0) ELSE Frac(0, 1)
        \* t = max(0.0, min(1.0, t))
        t1 == IF ~m.clamp THEN t0
              ELSE IF t0.num < 0 THEN Frac(0, 1)
              ELSE IF t0.num > t0.den THEN Frac(1, 1)
              ELSE t0
        \* t = 1.0 - t
        t2 == IF m.invert THEN Frac(t1.den - t1.num, t1.den) ELSE t1
    IN  Frac(m.min_out * t2.den + t2.num * (m.max_out - m.min_out), t2.den)

\* Mutant: a degenerate input range leaves the value as it is, t = v - min_in.
GenericOSCMapping_map_value_degenerate_offset(m, v) ==
    LET d0 == m.max_in - m.min_in
        t0 == IF m.max_in # m.min_in THEN Frac(v - m.min_in, d0) ELSE Frac(v - m.min_in, 10)
        t1 == IF ~m.clamp THEN t0
              ELSE IF t0.num < 0 THEN Frac(0, 1)
              ELSE IF t0.num > t0.den THEN Frac(1, 1)
              ELSE t0
        t2 == IF m.invert THEN Frac(t1.den - t1.num, t1.den) ELSE t1
    IN  Frac(m.min_out * t2.den + t2.num * (m.max_out - m.min_out), t2.den)

\* Mutant: the clamp is t = min(1.0, t), without the lower limit.
GenericOSCMapping_map_value_clamps_above(m, v) ==
    LET d0 == m.max_in - m.min_in
        t0 == IF m.max_in # m.min_in THEN Frac(v - m.min_in, d0) ELSE Frac(0, 1)
        t1 == IF ~m.clamp THEN t0
              ELSE IF t0.num > t0.den THEN Frac(1, 1)
              ELSE t0
        t2 == IF m.invert THEN Frac(t1.den - t1.num, t1.den) ELSE t1
    IN  Frac(m.min_out * t2.den + t2.num * (m.max_out - m.min_out), t2.den)

\* GenericOSCMapping.map_value(self, v).
GenericOSCMapping_map_value(m, v) ==
    LET d0 == m.max_in - m.min_in
        \* t = (v - min_in) / (max_in - min_in), or 0.0
        t0 == IF m.max_in # m.min_in THEN Frac(v - m.min_in, d0) ELSE Frac(0, 1)
        \* t = max(0.0, min(1.0, t))
        t1 == IF ~m.clamp THEN t0
              ELSE IF t0.num < 0 THEN Frac(0, 1)
              ELSE IF t0.num > t0.den THEN Frac(1, 1)
              ELSE t0
        \* t = 1.0 - t
        t2 == IF m.invert THEN Frac(t1.den - t1.num, t1.den) ELSE t1
    IN  Frac(m.min_out * t2.den + t2.num * (m.max_out - m.min_out), t2.den)

\* m.map_value(v): the method of the class of m.
map_value(m, v) ==
    IF m.kind = "char" THEN OSCMapping_map_value(m, v)
    ELSE GenericOSCMapping_map_value(m, v)

\* ---------------------------------------------------------------- core/osc_server.py: resolution
\* Mutant: the loop over args without its `break`: the last numeric argument.
RECURSIVE first_numeric_no_break(_)
first_numeric_no_break(args) ==
    IF args = <<>> THEN <<>>
    ELSE IF first_numeric_no_break(Tail(args)) # <<>> THEN first_numeric_no_break(Tail(args))
    ELSE IF isinstance_float_int(Head(args)) THEN <<Head(args).val>>
    ELSE <<>>

\* `for a in args: if isinstance(a, (float, int)): value = float(a); break`:
\* <<v>> for the first numeric argument, <<>> when value stays None.
RECURSIVE first_numeric(_)
first_numeric(args) ==
    IF args = <<>> THEN <<>>
    ELSE IF isinstance_float_int(Head(args)) THEN <<Head(args).val>>
    ELSE first_numeric(Tail(args))

\* The update commands.  msg and rule are history: the push number of the
\* message and the position in config of the rule the command comes from.
ShapekeyUpdate(m, v, seq) ==
    [kind |-> "shapekey", object_name |-> m.object_name, shapekey_name |-> m.shapekey_name,
     value |-> v, msg |-> seq, rule |-> m.rule]
BoneUpdate(m, v, seq) ==
    [kind |-> "bone", armature_name |-> m.armature_name, bone_name |-> m.bone_name,
     rotation_axis |-> m.rotation_axis, value |-> v, rotation_mode |-> m.rotation_mode,
     msg |-> seq, rule |-> m.rule]
GenericUpdate(m, v, seq) ==
    [kind |-> "generic", data_path |-> m.data_path, value |-> v, msg |-> seq, rule |-> m.rule]

\* Mutant: the bone test is an `elif` of the shape key test.
mapping_updates_elif_bone(m, value, seq) ==
    LET v == map_value(m, value)
    IN  IF IsChar(m) THEN
            IF m.shapekey_name # <<>> THEN <<ShapekeyUpdate(m, v, seq)>>
            ELSE IF m.bone_name # <<>> /\ m.armature_name # <<>> THEN <<BoneUpdate(m, v, seq)>>
            ELSE <<>>
        ELSE <<GenericUpdate(m, v, seq)>>

\* The body of `for m in table[address]`: what one mapping appends.
mapping_updates(m, value, seq) ==
    LET v == map_value(m, value)
    IN  IF IsChar(m) THEN
            (IF m.shapekey_name # <<>> THEN <<ShapekeyUpdate(m, v, seq)>> ELSE <<>>)
            \o (IF m.bone_name # <<>> /\ m.armature_name # <<>>
                THEN <<BoneUpdate(m, v, seq)>> ELSE <<>>)
        ELSE <<GenericUpdate(m, v, seq)>>

RECURSIVE mappings_updates(_, _, _)
mappings_updates(ms, value, seq) ==
    IF ms = <<>> THEN <<>>
    ELSE mapping_updates(Head(ms), value, seq) \o mappings_updates(Tail(ms), value, seq)

\* The body of `for address, args in messages_batch`: what one message appends.
message_updates(tbl, msg) ==
    LET value == first_numeric(msg.args)
    IN  IF value # <<>> /\ msg.address \in DOMAIN tbl
        THEN mappings_updates(tbl[msg.address], value[1], msg.seq)
        ELSE <<>>

\* Mutant: a message that resolves to no command ends the loop over the batch.
RECURSIVE resolve_batch_stops_at_miss(_, _)
resolve_batch_stops_at_miss(tbl, batch) ==
    IF batch = <<>> THEN <<>>
    ELSE IF message_updates(tbl, Head(batch)) = <<>> THEN <<>>
    ELSE message_updates(tbl, Head(batch)) \o resolve_batch_stops_at_miss(tbl, Tail(batch))

\* updates_to_apply after the loop over messages_batch.
RECURSIVE resolve_batch(_, _)
resolve_batch(tbl, batch) ==
    IF batch = <<>> THEN <<>>
    ELSE message_updates(tbl, Head(batch)) \o resolve_batch(tbl, Tail(batch))

\* ---------------------------------------------------------------- initial state
\* The addresses, names and data paths used by the senders and in the scene.
AddrX == <<"/", "x">>
AddrY == <<"/", "y">>
AddrXSpace == <<"/", "x", " ">>
PathA == <<"b", "p", "y", ".", "a">>
PathB == <<"b", "p", "y", ".", "b">>
\* One sender emitting (AddrX, [0.5]) and one generic rule on AddrX.
DefaultPayload == Payload(AddrX, <<OscFloat(5)>>)
DefaultConfig == <<GenericOSCMappingItem(AddrX, PathA, FALSE)>>

Init ==
    /\ running = FALSE
    /\ server = None
    /\ dispatcher = None
    /\ server_thread = None
    /\ msg_queue = <<>>
    /\ pythonosc_imported \in BOOLEAN
    /\ nsrv = 0
    /\ thr = [k \in Servers |-> [pc |-> "none", port |-> 0]]
    /\ inflight = EmptyBag
    /\ nrecv = 0
    /\ main_pc = "idle"
    /\ messages_batch = <<>>
    /\ npushed = 0
    /\ last_drained = 0
    /\ last_op = "none"
    /\ senders = {DefaultPayload}
    /\ config = DefaultConfig
    /\ table = <<>>
    /\ updates_to_apply = <<>>
    /\ tick_start_queue = <<>>
    /\ napplied = 0
    /\ view_updates = 0
    /\ last_build = <<>>
    /\ npushed_at_edit = 0
    /\ timers = 0
    /\ timer_installed = FALSE

\* ---------------------------------------------------------------- start_server
\* What the environment may do to one start_server call: nothing ("ok"), make
\* ThreadingOSCUDPServer((ip, port), disp) raise OSError ("bind_fail"), or make
\* Thread.start() raise RuntimeError ("spawn_fail").
StartEnvs == {"ok", "bind_fail", "spawn_fail"}

\* The constructor binds the socket: OSError when the environment refuses the
\* address, or when an open socket of this process already holds the port.
\* (No further server object is created once MaxStarts exist.)
BindFails(port, env) == env = "bind_fail" \/ PortHeld(port) \/ nsrv = MaxStarts

\* `if osc_state.running: return "Server already started."`
start_already_started ==
    /\ last_op' = "start:already_started"
    /\ UNCHANGED <<running, server, dispatcher, server_thread, nsrv, thr>>

\* `if Dispatcher is None or ThreadingOSCUDPServer is None: return "python-osc ..."`
start_import_error ==
    /\ last_op' = "start:import_error"
    /\ UNCHANGED <<running, server, dispatcher, server_thread, nsrv, thr>>

\* `except OSError as e:` resets running, server and server_thread and
\* returns "socket error: ...".
start_socket_error ==
    /\ running' = FALSE
    /\ server' = None
    /\ server_thread' = None
    /\ last_op' = "start:socket_error"
    /\ UNCHANGED <<dispatcher, nsrv, thr>>

\* The try block after a successful bind: the dispatcher and the server are
\* stored, running is set, then the thread is created and started.  When
\* Thread.start() raises RuntimeError, no except clause matches: the exception
\* leaves start_server, after running was set and before server_thread is.
start_store_and_spawn(port, env) ==
    /\ nsrv' = nsrv + 1
    /\ dispatcher' = nsrv + 1
    /\ server' = nsrv + 1
    /\ running' = TRUE
    /\ IF env = "spawn_fail" THEN
            /\ thr' = [thr EXCEPT ![nsrv + 1] = [pc |-> "unstarted", port |-> port]]
            /\ UNCHANGED server_thread
            /\ last_op' = "start:raised"
       ELSE
            /\ thr' = [thr EXCEPT ![nsrv + 1] = [pc |-> "check", port |-> port]]
            /\ server_thread' = nsrv + 1
            /\ last_op' = "start:ok"

\* What start_server leaves alone on every path.
start_frame ==
    /\ UNCHANGED <<msg_queue, pythonosc_imported, inflight, nrecv, main_pc,
                   messages_batch, npushed, last_drained>>
    /\ UNCHANGED <<senders, config, table, updates_to_apply, tick_start_queue, napplied,
                   view_updates, last_build, npushed_at_edit>>

\* Mutant: the running check at the top of start_server is missing.
start_server_no_running_check(port, env) ==
    /\ main_pc = "idle"
    /\ start_frame
    /\ UNCHANGED host_timers
    /\ IF ~pythonosc_imported THEN start_import_error
       ELSE IF BindFails(port, env) THEN start_socket_error
       ELSE start_store_and_spawn(port, env)

\* Mutant: running is set before the bind and the except clause does not
\* reset it.
start_server_running_before_bind(port, env) ==
    /\ main_pc = "idle"
    /\ start_frame
    /\ UNCHANGED host_timers
    /\ IF running THEN start_already_started
       ELSE IF ~pythonosc_imported THEN start_import_error
       ELSE IF BindFails(port, env) THEN
            /\ running' = TRUE
            /\ server' = None
            /\ server_thread' = None
            /\ last_op' = "start:socket_error"
            /\ UNCHANGED <<dispatcher, nsrv, thr>>
       ELSE start_store_and_spawn(port, env)

\* The body of start_server(ip, port): what one call does to the state of the
\* add-on.  The function does not touch the host's timers.
start_server_call(port, env) ==
    /\ main_pc = "idle"
    /\ start_frame
    /\ IF running THEN start_already_started
       ELSE IF ~pythonosc_imported THEN start_import_error
       ELSE IF BindFails(port, env) THEN start_socket_error
       ELSE start_store_and_spawn(port, env)

\* start_server(ip, port), called on the main thread.
start_server(port, env) ==
    /\ start_server_call(port, env)
    /\ UNCHANGED host_timers

\* ---------------------------------------------------------------- stop_server
\* Mutant: stop_server without its `if not osc_state.running: return`.
stop_server_no_running_check ==
    /\ main_pc = "idle"
    /\ UNCHANGED <<server, dispatcher, server_thread, msg_queue, pythonosc_imported,
                   nsrv, thr, inflight, nrecv, messages_batch, npushed, last_drained>>
    /\ UNCHANGED scene_and_tick
    /\ running' = FALSE
    /\ main_pc' = "stop_sleep"
    /\ last_op' = "stop:sleeping"

\* stop_server() up to its time.sleep(0.25).
stop_server ==
    /\ main_pc = "idle"
    /\ UNCHANGED <<server, dispatcher, server_thread, msg_queue, pythonosc_imported,
                   nsrv, thr, inflight, nrecv, messages_batch, npushed, last_drained>>
    /\ UNCHANGED scene_and_tick
    /\ IF ~running THEN
            /\ last_op' = "stop:noop"
            /\ UNCHANGED <<running, main_pc>>
       ELSE
            /\ running' = FALSE
            /\ main_pc' = "stop_sleep"
            /\ last_op' = "stop:sleeping"

\* stop_server() after the sleep: drop the handles, clear the queue.
stop_server_cleanup ==
    /\ main_pc = "stop_sleep"
    /\ server' = None
    /\ server_thread' = None
    /\ dispatcher' = None
    /\ msg_queue' = <<>>
    /\ main_pc' = "idle"
    /\ last_op' = "stop:done"
    /\ UNCHANGED <<running, pythonosc_imported, nsrv, thr, inflight, nrecv,
                   messages_batch, npushed, last_drained>>
    /\ UNCHANGED scene_and_tick

\* ---------------------------------------------------------------- serve() threads
\* `while osc_state.running:` of serve(): one read of the flag.
serve_check(k) ==
    /\ k <= nsrv
    /\ thr[k].pc = "check"
    /\ thr' = [thr EXCEPT ![k].pc = IF running THEN "handle" ELSE "close"]
    /\ UNCHANGED <<running, server, dispatcher, server_thread, msg_queue,
                   pythonosc_imported, nsrv, inflight, nrecv, main_pc, messages_batch,
                   npushed, last_drained, last_op>>
    /\ UNCHANGED scene_and_tick

\* Mutant: handle_request() without the try/except: an exception leaves the
\* loop of serve().
handle_request_error_exits(k, outcome) ==
    /\ k <= nsrv
    /\ thr[k].pc = "handle"
    /\ thr' = [thr EXCEPT ![k].pc = IF outcome = "error" THEN "close" ELSE "check"]
    /\ IF outcome = "datagram" /\ nrecv < MaxMsgs THEN
            /\ nrecv' = nrecv + 1
            /\ \E p \in senders :
                  inflight' = inflight (+) SetToBag({Datagram(IF running THEN nsrv ELSE None, p)})
       ELSE UNCHANGED <<nrecv, inflight>>
    /\ UNCHANGED <<running, server, dispatcher, server_thread, msg_queue,
                   pythonosc_imported, nsrv, main_pc, messages_batch, npushed, last_drained,
                   last_op>>
    /\ UNCHANGED scene_and_tick

\* server.handle_request() inside the try/except of serve().  outcome is what
\* the socket does: "timeout" (nothing within server.timeout), "error" (any
\* exception, swallowed by the bare except) or "datagram": a request is
\* received and handed to a request thread that will call osc_handler.
handle_request(k, outcome) ==
    /\ k <= nsrv
    /\ thr[k].pc = "handle"
    /\ thr' = [thr EXCEPT ![k].pc = "check"]
    /\ IF outcome = "datagram" /\ nrecv < MaxMsgs THEN
            /\ nrecv' = nrecv + 1
            /\ \E p \in senders :
                  inflight' = inflight (+) SetToBag({Datagram(IF running THEN nsrv ELSE None, p)})
       ELSE UNCHANGED <<nrecv, inflight>>
    /\ UNCHANGED <<running, server, dispatcher, server_thread, msg_queue,
                   pythonosc_imported, nsrv, main_pc, messages_batch, npushed, last_drained,
                   last_op>>
    /\ UNCHANGED scene_and_tick

\* Mutant: the serve() thread resets the lifecycle state itself when it leaves.
server_close_resets_state(k) ==
    /\ k <= nsrv
    /\ thr[k].pc = "close"
    /\ thr' = [thr EXCEPT ![k] = [pc |-> "done", port |-> 0]]
    /\ running' = FALSE
    /\ server' = None
    /\ server_thread' = None
    /\ UNCHANGED <<dispatcher, msg_queue, pythonosc_imported, nsrv, inflight, nrecv,
                   main_pc, messages_batch, npushed, last_drained, last_op>>
    /\ UNCHANGED scene_and_tick

\* server.server_close() after the loop of serve().
server_close(k) ==
    /\ k <= nsrv
    /\ thr[k].pc = "close"
    /\ thr' = [thr EXCEPT ![k] = [pc |-> "done", port |-> 0]]
    /\ UNCHANGED <<running, server, dispatcher, server_thread, msg_queue,
                   pythonosc_imported, nsrv, inflight, nrecv, main_pc, messages_batch,
                   npushed, last_drained, last_op>>
    /\ UNCHANGED scene_and_tick

serve(k) ==
    \/ serve_check(k)
    \/ \E outcome \in {"timeout", "error", "datagram"} : handle_request(k, outcome)
    \/ server_close(k)

\* Queue.put_nowait(item): raises queue.Full only when 0 < maxsize <= qsize.
put_nowait_full(q) == QueueMaxsize > 0 /\ Len(q) >= QueueMaxsize

\* Mutant: the handler applies the value itself instead of queueing it.
osc_handler_applies(m) ==
    /\ BagIn(m, inflight)
    /\ inflight' = inflight (-) SetToBag({m})
    /\ napplied' = napplied + 1
    /\ view_updates' = 1
    /\ UNCHANGED <<running, server, dispatcher, server_thread, msg_queue, pythonosc_imported,
                   nsrv, thr, nrecv, main_pc, messages_batch, npushed, last_drained, last_op>>
    /\ UNCHANGED <<senders, config, table, updates_to_apply, tick_start_queue,
                   last_build, npushed_at_edit,
                   timers, timer_installed>>

\* osc_handler(address, *args), called on a request thread.
osc_handler(m) ==
    /\ BagIn(m, inflight)
    /\ inflight' = inflight (-) SetToBag({m})
    /\ IF put_nowait_full(msg_queue) THEN
            \* except queue.Full: pass
            UNCHANGED <<msg_queue, npushed>>
       ELSE
            /\ msg_queue' = Append(msg_queue, Queued(m, npushed + 1))
            /\ npushed' = npushed + 1
    /\ UNCHANGED <<running, server, dispatcher, server_thread, pythonosc_imported,
                   nsrv, thr, nrecv, main_pc, messages_batch, last_drained, last_op>>
    /\ UNCHANGED scene_and_tick

\* ---------------------------------------------------------------- timer step
\* What the call build_mapping_table_extended(bpy.context) of the timer step
\* may do: return the table, or raise (the scene or its collections cannot be
\* read from bpy.context).
BuildEnvs == {"ok", "raises"}

\* `table = build_mapping_table_extended(bpy.context)` raises.  The statement
\* is outside every try block: the exception leaves the timer step.
tick_build_raises ==
    /\ last_op' = "tick:raised"
    /\ UNCHANGED <<main_pc, messages_batch, table, updates_to_apply,
                   tick_start_queue, napplied, view_updates, last_build>>

\* Mutant: the order inside the address groups depends on whether messages
\* are waiting in the queue.
tick_build_returns_order_varies ==
    /\ main_pc' = "tick_drain"
    /\ table' = IF msg_queue = <<>> THEN build_mapping_table_extended(config)
                 ELSE build_mapping_table_generic_first(config)
    /\ last_build' = [config |-> config, table |-> table']
    /\ messages_batch' = <<>>
    /\ updates_to_apply' = <<>>
    /\ tick_start_queue' = [i \in 1 .. Len(msg_queue) |-> msg_queue[i].seq]
    /\ napplied' = 0
    /\ view_updates' = 0
    /\ last_op' = "tick:draining"

\* Mutant: the table is built once and reused by the later timer steps.
tick_build_returns_cached ==
    /\ main_pc' = "tick_drain"
    /\ table' = IF last_build # <<>> THEN last_build.table
                 ELSE build_mapping_table_extended(config)
    /\ last_build' = [config |-> config, table |-> table']
    /\ messages_batch' = <<>>
    /\ updates_to_apply' = <<>>
    /\ tick_start_queue' = [i \in 1 .. Len(msg_queue) |-> msg_queue[i].seq]
    /\ napplied' = 0
    /\ view_updates' = 0
    /\ last_op' = "tick:draining"

\* The table is built; processed, messages_batch are initialised.
tick_build_returns ==
    /\ main_pc' = "tick_drain"
    /\ table' = build_mapping_table_extended(config)
    /\ last_build' = [config |-> config, table |-> build_mapping_table_extended(config)]
    /\ messages_batch' = <<>>
    /\ updates_to_apply' = <<>>
    /\ tick_start_queue' = [i \in 1 .. Len(msg_queue) |-> msg_queue[i].seq]
    /\ napplied' = 0
    /\ view_updates' = 0
    /\ last_op' = "tick:draining"

\* Mutant: the timer step without its `if not osc_state.running: return None`.
osc_timer_step_extended_no_running_check(build) ==
    /\ main_pc = "idle"
    /\ UNCHANGED <<running, server, dispatcher, server_thread, msg_queue,
                   pythonosc_imported, nsrv, thr, inflight, nrecv, npushed, last_drained>>
    /\ UNCHANGED <<senders, config, npushed_at_edit, timers, timer_installed>>
    /\ IF build = "raises" THEN tick_build_raises
       ELSE tick_build_returns

\* osc_timer_step_extended() up to its drain loop: the running test and the
\* construction of the mapping table.  build is what the call of
\* build_mapping_table_extended does.
osc_timer_step_extended_call(build) ==
    /\ main_pc = "idle"
    /\ UNCHANGED <<running, server, dispatcher, server_thread, msg_queue,
                   pythonosc_imported, nsrv, thr, inflight, nrecv, npushed, last_drained>>
    /\ UNCHANGED <<senders, config, npushed_at_edit>>
    /\ IF ~running THEN
            /\ last_op' = "tick:None"
            /\ UNCHANGED <<main_pc, messages_batch, table, updates_to_apply,
                           tick_start_queue, napplied, view_updates, last_build>>
       ELSE IF build = "raises" THEN tick_build_raises
       ELSE tick_build_returns

\* One call of osc_timer_step_extended(), seen from the add-on: the list of
\* the host's scheduled callbacks is not part of what the function writes.
osc_timer_step_extended(build) ==
    /\ osc_timer_step_extended_call(build)
    /\ UNCHANGED host_timers

\* Mutant: the drain loop takes the newest message instead of the oldest.
timer_get_nowait_newest_first ==
    /\ main_pc = "tick_drain"
    /\ msg_queue # <<>>
    /\ Len(messages_batch) < max_per_tick
    /\ messages_batch' = Append(messages_batch, msg_queue[Len(msg_queue)])
    /\ last_drained' = msg_queue[Len(msg_queue)].seq
    /\ msg_queue' = SubSeq(msg_queue, 1, Len(msg_queue) - 1)
    /\ UNCHANGED <<running, server, dispatcher, server_thread, pythonosc_imported,
                   nsrv, thr, inflight, nrecv, main_pc, npushed, last_op>>
    /\ UNCHANGED scene_and_tick

\* Mutant: the drain loop reads the oldest message and leaves it in the queue.
timer_get_nowait_keeps_message ==
    /\ main_pc = "tick_drain"
    /\ msg_queue # <<>>
    /\ Len(messages_batch) < max_per_tick
    /\ messages_batch' = Append(messages_batch, Head(msg_queue))
    /\ last_drained' = Head(msg_queue).seq
    /\ UNCHANGED msg_queue
    /\ UNCHANGED <<running, server, dispatcher, server_thread, pythonosc_imported,
                   nsrv, thr, inflight, nrecv, main_pc, npushed, last_op>>
    /\ UNCHANGED scene_and_tick

\* Mutant: the drain loop without `processed < max_per_tick`.
timer_get_nowait_no_cap ==
    /\ main_pc = "tick_drain"
    /\ msg_queue # <<>>
    /\ messages_batch' = Append(messages_batch, Head(msg_queue))
    /\ last_drained' = Head(msg_queue).seq
    /\ msg_queue' = Tail(msg_queue)
    /\ UNCHANGED <<running, server, dispatcher, server_thread, pythonosc_imported,
                   nsrv, thr, inflight, nrecv, main_pc, npushed, last_op>>
    /\ UNCHANGED scene_and_tick

\* One iteration of `while not msg_queue.empty() and processed < max_per_tick`.
timer_get_nowait ==
    /\ main_pc = "tick_drain"
    /\ msg_queue # <<>>
    /\ Len(messages_batch) < max_per_tick
    /\ messages_batch' = Append(messages_batch, Head(msg_queue))
    /\ last_drained' = Head(msg_queue).seq
    /\ msg_queue' = Tail(msg_queue)
    /\ UNCHANGED <<running, server, dispatcher, server_thread, pythonosc_imported,
                   nsrv, thr, inflight, nrecv, main_pc, npushed, last_op>>
    /\ UNCHANGED scene_and_tick

\* Mutant: with an empty batch the timer step returns None, which makes the
\* host drop the timer.
timer_resolve_stops_when_idle ==
    /\ main_pc = "tick_drain"
    /\ msg_queue = <<>> \/ Len(messages_batch) >= max_per_tick
    /\ UNCHANGED <<running, server, dispatcher, server_thread, msg_queue,
                   pythonosc_imported, nsrv, thr, inflight, nrecv, npushed, last_drained>>
    /\ UNCHANGED <<senders, config, messages_batch, napplied, view_updates,
                   last_build, npushed_at_edit,
                   timers, timer_installed>>
    /\ IF messages_batch = <<>> THEN
            /\ main_pc' = "idle"
            /\ table' = <<>>
            /\ tick_start_queue' = <<>>
            /\ last_op' = "tick:None"
            /\ UNCHANGED updates_to_apply
       ELSE
            /\ main_pc' = "tick_apply"
            /\ updates_to_apply' = resolve_batch(table, messages_batch)
            /\ last_op' = "tick:resolved"
            /\ UNCHANGED <<table, tick_start_queue>>

\* The drain loop has ended.  `if not messages_batch: return 0.01`; otherwise
\* the loop over messages_batch fills updates_to_apply.
timer_resolve ==
    /\ main_pc = "tick_drain"
    /\ msg_queue = <<>> \/ Len(messages_batch) >= max_per_tick
    /\ UNCHANGED <<running, server, dispatcher, server_thread, msg_queue,
                   pythonosc_imported, nsrv, thr, inflight, nrecv, npushed, last_drained>>
    /\ UNCHANGED <<senders, config, messages_batch, napplied, view_updates,
                   last_build, npushed_at_edit,
                   timers, timer_installed>>
    /\ IF messages_batch = <<>> THEN
            /\ main_pc' = "idle"
            /\ table' = <<>>
            /\ tick_start_queue' = <<>>
            /\ last_op' = "tick:idle"
            /\ UNCHANGED updates_to_apply
       ELSE
            /\ main_pc' = "tick_apply"
            /\ updates_to_apply' = resolve_batch(table, messages_batch)
            /\ last_op' = "tick:resolved"
            /\ UNCHANGED <<table, tick_start_queue>>

\* apply_shapekey_value and apply_bone_rotation write to Blender data and may
\* raise; apply_generic_value catches every exception itself.
may_raise(update) == update.kind \in {"shapekey", "bone"}

\* Mutant: the apply loop without its try/except: the exception of an apply
\* call leaves the timer step.
timer_apply_error_propagates(fail_at) ==
    /\ main_pc = "tick_apply"
    /\ fail_at \in 0 .. Len(updates_to_apply)
    /\ fail_at # 0 => may_raise(updates_to_apply[fail_at])
    /\ IF fail_at = 0 THEN
            /\ napplied' = Len(updates_to_apply)
            /\ view_updates' = IF updates_to_apply # <<>> THEN 1 ELSE 0
            /\ last_op' = "tick:applied"
       ELSE
            /\ napplied' = fail_at - 1
            /\ view_updates' = 0
            /\ last_op' = "tick:raised"
    /\ main_pc' = "idle"
    /\ messages_batch' = <<>>
    /\ table' = <<>>
    /\ tick_start_queue' = <<>>
    /\ UNCHANGED <<running, server, dispatcher, server_thread, msg_queue,
                   pythonosc_imported, nsrv, thr, inflight, nrecv, npushed, last_drained>>
    /\ UNCHANGED <<senders, config, updates_to_apply, last_build, npushed_at_edit,
                   timers, timer_installed>>

\* The try block that applies updates_to_apply, and `return 0.01`.  fail_at is
\* the position of the command whose apply call raises (0: none does).  The
\* except clause ends the loop and skips view_layer.update().
timer_apply(fail_at) ==
    /\ main_pc = "tick_apply"
    /\ fail_at \in 0 .. Len(updates_to_apply)
    /\ fail_at # 0 => may_raise(updates_to_apply[fail_at])
    /\ IF fail_at = 0 THEN
            /\ napplied' = Len(updates_to_apply)
            /\ view_updates' = IF updates_to_apply # <<>> THEN 1 ELSE 0
            /\ last_op' = "tick:applied"
       ELSE
            /\ napplied' = fail_at - 1
            /\ view_updates' = 0
            /\ last_op' = "tick:apply_error"
    /\ main_pc' = "idle"
    /\ messages_batch' = <<>>
    /\ table' = <<>>
    /\ tick_start_queue' = <<>>
    /\ UNCHANGED <<running, server, dispatcher, server_thread, msg_queue,
                   pythonosc_imported, nsrv, thr, inflight, nrecv, npushed, last_drained>>
    /\ UNCHANGED <<senders, config, updates_to_apply, last_build, npushed_at_edit,
                   timers, timer_installed>>

\* ---------------------------------------------------------------- specification
Next ==
    \/ \E port \in Ports, env \in StartEnvs : start_server(port, env)
    \/ stop_server
    \/ stop_server_cleanup
    \/ \E build \in BuildEnvs : osc_timer_step_extended(build)
    \/ timer_get_nowait
    \/ timer_resolve
    \/ \E fail_at \in 0 .. Len(updates_to_apply) : timer_apply(fail_at)
    \/ \E k \in Servers : serve(k)
    \/ \E m \in BagToSet(inflight) : osc_handler(m)

Spec == Init /\ [][Next]_vars

\* The operating system schedules every runnable thread: a serve() thread and a
\* request thread take their next step, the sleep of stop_server ends, and the
\* drain loop of the timer step runs to its end.  Nothing obliges the user to
\* start or stop the server, or the host to run the timer.
FairSpec ==
    /\ Spec
    /\ \A k \in Servers : WF_vars(serve(k))
    /\ WF_vars(\E m \in BagToSet(inflight) : osc_handler(m))
    /\ WF_vars(stop_server_cleanup)
    /\ WF_vars(timer_get_nowait)
    /\ WF_vars(timer_resolve)
    /\ WF_vars(\E fail_at \in 0 .. Len(updates_to_apply) : timer_apply(fail_at))

\* ---------------------------------------------------------------- routing specification
\* The messages the senders emit: a float (0.5, 0.2); a string followed by two
\* numbers; a string only; a float on an address no rule names; a float on the
\* address with a trailing space.
Payloads ==
    { Payload(AddrX, <<OscFloat(5)>>),
      Payload(AddrX, <<OscFloat(2)>>),
      Payload(AddrX, <<OscString(<<"s">>), OscFloat(2), OscInt(10)>>),
      Payload(AddrX, <<OscString(<<"s">>)>>),
      Payload(AddrY, <<OscFloat(5)>>),
      Payload(AddrXSpace, <<OscFloat(5)>>) }

\* The rules the user may have configured.
GenericX == GenericOSCMappingItem(AddrX, PathA, FALSE)
GenericXInvert == GenericOSCMappingItem(AddrX, PathB, TRUE)
GenericXSpace == GenericOSCMappingItem(AddrXSpace, PathB, FALSE)
CharShape == OSCMappingItem(AddrX, <<"K">>, <<>>, <<>>, FALSE)
CharBone == OSCMappingItem(AddrX, <<>>, <<"A">>, <<"B">>, TRUE)
CharBoth == OSCMappingItem(AddrX, <<"K">>, <<"A">>, <<"B">>, FALSE)
\* A character rule as the "add" operator creates it: no target chosen yet.
CharEmpty == OSCMappingItem(AddrX, <<>>, <<>>, <<>>, FALSE)

\* The configurations: no rule, each rule alone, and pairs of rules on the
\* same address in both orders of insertion.
Configs ==
    { <<>>,
      <<GenericX>>, <<GenericXInvert>>, <<GenericXSpace>>,
      <<CharShape>>, <<CharBone>>, <<CharBoth>>, <<CharEmpty>>,
      <<GenericX, GenericXInvert>>, <<GenericXInvert, GenericX>>,
      <<CharShape, CharBone>>,
      <<GenericX, CharShape>>, <<CharShape, GenericX>>,
      <<GenericXInvert, CharBoth>>, <<CharEmpty, GenericX>> }

\* The state after the user has configured the rules and one start_server
\* call on the default port has succeeded.
RouteInit ==
    /\ running = TRUE
    /\ server = 1
    /\ dispatcher = 1
    /\ server_thread = 1
    /\ msg_queue = <<>>
    /\ pythonosc_imported = TRUE
    /\ nsrv = 1
    /\ thr = [k \in Servers |->
                IF k = 1 THEN [pc |-> "check", port |-> DEFAULT_OSC_PORT]
                ELSE [pc |-> "none", port |-> 0]]
    /\ inflight = EmptyBag
    /\ nrecv = 0
    /\ main_pc = "idle"
    /\ messages_batch = <<>>
    /\ npushed = 0
    /\ last_drained = 0
    /\ last_op = "start:ok"
    /\ senders = Payloads
    /\ config \in Configs
    /\ table = <<>>
    /\ updates_to_apply = <<>>
    /\ tick_start_queue = <<>>
    /\ napplied = 0
    /\ view_updates = 0
    /\ last_build = <<>>
    /\ npushed_at_edit = 0
    /\ timers = 1
    /\ timer_installed = TRUE

\* The listener receives and pushes while the host runs the timer step; the
\* user neither starts nor stops the server.
RouteNext ==
    \/ \E build \in BuildEnvs : osc_timer_step_extended(build)
    \/ timer_get_nowait
    \/ timer_resolve
    \/ \E fail_at \in 0 .. Len(updates_to_apply) : timer_apply(fail_at)
    \/ \E k \in Servers : serve_check(k)
    \/ \E k \in Servers, outcome \in {"timeout", "error", "datagram"} : handle_request(k, outcome)
    \/ \E m \in BagToSet(inflight) : osc_handler(m)

RouteSpec == RouteInit /\ [][RouteNext]_vars

\* ---------------------------------------------------------------- burst specification
\* The queue after a burst: up to max_per_tick + 1 messages were received and
\* pushed on a running server before the host ran the timer step.
Burst(n) == [i \in 1 .. n |-> Queued(Datagram(1, DefaultPayload), i)]

DrainInit ==
    /\ running = TRUE
    /\ server = 1
    /\ dispatcher = 1
    /\ server_thread = 1
    /\ \E n \in 0 .. (max_per_tick + 1) : msg_queue = Burst(n) /\ npushed = n
    /\ pythonosc_imported = TRUE
    /\ nsrv = 1
    /\ thr = [k \in Servers |->
                IF k = 1 THEN [pc |-> "check", port |-> DEFAULT_OSC_PORT]
                ELSE [pc |-> "none", port |-> 0]]
    /\ inflight = EmptyBag
    /\ nrecv = 0
    /\ main_pc = "idle"
    /\ messages_batch = <<>>
    /\ last_drained = 0
    /\ last_op = "start:ok"
    /\ senders = {DefaultPayload}
    /\ config = DefaultConfig
    /\ table = <<>>
    /\ updates_to_apply = <<>>
    /\ tick_start_queue = <<>>
    /\ napplied = 0
    /\ view_updates = 0
    /\ last_build = <<>>
    /\ npushed_at_edit = 0
    /\ timers = 1
    /\ timer_installed = TRUE

\* The listener goes on receiving and pushing while the timer step drains.
DrainSpec == DrainInit /\ [][RouteNext]_vars

\* ---------------------------------------------------------------- edit specification
\* operators/mapping_operators.py and the property fields of ui/panels.py: the
\* user changes the rules while the server runs.  Operators and property
\* writes run on the main thread, so never inside a timer step.
MaxRules == 2

ParamAddr == <<"/", "p", "a", "r", "a", "m">>
LocationPath ==
    <<"b", "p", "y", ".", "c", "o", "n", "t", "e", "x", "t", ".", "o", "b", "j", "e", "c", "t",
      ".", "l", "o", "c", "a", "t", "i", "o", "n", "[", "0", "]">>

\* The positions in config of the items of one collection, in collection order.
CollectionPositions(cfg, kind) ==
    SelectSeq([i \in 1 .. Len(cfg) |-> i], LAMBDA i : cfg[i].kind = kind)

\* collection.remove(idx) on the collection of the given kind.
collection_remove(cfg, kind, idx) ==
    LET pos == CollectionPositions(cfg, kind)[idx + 1]
    IN  SubSeq(cfg, 1, pos - 1) \o SubSeq(cfg, pos + 1, Len(cfg))

\* What every change of the rules leaves alone: the server, the queue and the
\* timer step's locals.
rules_edit_frame ==
    /\ main_pc = "idle"
    /\ npushed_at_edit' = npushed
    /\ UNCHANGED osc_state
    /\ UNCHANGED <<pythonosc_imported, nsrv, thr, inflight, nrecv, main_pc,
                   messages_batch, npushed, last_drained, last_op>>
    /\ UNCHANGED <<senders, table, updates_to_apply, tick_start_queue, napplied,
                   view_updates, last_build, timers, timer_installed>>

\* OSC_OT_AddGenericMapping.execute
OSC_OT_AddGenericMapping ==
    /\ Len(config) < MaxRules
    /\ config' = Append(config, GenericOSCMappingItem(ParamAddr, LocationPath, FALSE))
    /\ rules_edit_frame

\* OSC_OT_AddMapping.execute
OSC_OT_AddMapping ==
    /\ Len(config) < MaxRules
    /\ config' = Append(config, OSCMappingItem(ParamAddr, <<>>, <<>>, <<>>, FALSE))
    /\ rules_edit_frame

\* OSC_OT_RemoveGenericMapping.execute
OSC_OT_RemoveGenericMapping(index) ==
    /\ config' = IF 0 <= index /\ index < Len(osc_generic_mappings(config))
                 THEN collection_remove(config, "generic", index)
                 ELSE config
    /\ rules_edit_frame

\* OSC_OT_RemoveMapping.execute
OSC_OT_RemoveMapping(index) ==
    /\ config' = IF 0 <= index /\ index < Len(osc_mappings(config))
                 THEN collection_remove(config, "char", index)
                 ELSE config
    /\ rules_edit_frame

\* The "invert" checkbox of a rule's row: item.invert is written.
item_invert_set(i, value) ==
    /\ i \in DOMAIN config
    /\ config' = [config EXCEPT ![i].invert = value]
    /\ rules_edit_frame

\* The sender emits ("/param", [0.2]), which the rules made by the "add"
\* operators listen to.
EditPayload == Payload(ParamAddr, <<OscFloat(2)>>)

\* The queue after n messages of the sender were received and pushed.
EditBurst(n) == [i \in 1 .. n |-> Queued(Datagram(1, EditPayload), i)]

\* The state after the add-on was registered, one start_server call on the
\* default port has succeeded and up to max_per_tick + 1 messages, more than
\* one timer step drains, were received and pushed while no rule was
\* configured yet.
EditInit ==
    /\ running = TRUE
    /\ server = 1
    /\ dispatcher = 1
    /\ server_thread = 1
    /\ \E n \in 0 .. (max_per_tick + 1) :
          msg_queue = EditBurst(n) /\ npushed = n /\ nrecv = n
    /\ pythonosc_imported = TRUE
    /\ nsrv = 1
    /\ thr = [k \in Servers |->
                IF k = 1 THEN [pc |-> "check", port |-> DEFAULT_OSC_PORT]
                ELSE [pc |-> "none", port |-> 0]]
    /\ inflight = EmptyBag
    /\ main_pc = "idle"
    /\ messages_batch = <<>>
    /\ last_drained = 0
    /\ last_op = "start:ok"
    /\ senders = {EditPayload}
    /\ config = <<>>
    /\ table = <<>>
    /\ updates_to_apply = <<>>
    /\ tick_start_queue = <<>>
    /\ napplied = 0
    /\ view_updates = 0
    /\ last_build = <<>>
    /\ npushed_at_edit = 0
    /\ timers = 1
    /\ timer_installed = TRUE

\* The user edits the rules between the timer steps, which drain what the
\* listener has pushed.
EditNext ==
    \/ \E build \in BuildEnvs : osc_timer_step_extended(build)
    \/ timer_get_nowait
    \/ timer_resolve
    \/ \E fail_at \in 0 .. Len(updates_to_apply) : timer_apply(fail_at)
    \/ OSC_OT_AddGenericMapping
    \/ OSC_OT_AddMapping
    \/ \E index \in -1 .. (MaxRules - 1) : OSC_OT_RemoveGenericMapping(index)
    \/ \E index \in -1 .. (MaxRules - 1) : OSC_OT_RemoveMapping(index)
    \/ \E i \in 1 .. MaxRules, value \in BOOLEAN : item_invert_set(i, value)

EditSpec == EditInit /\ [][EditNext]_vars

\* ---------------------------------------------------------------- mapping specification
\* map_value of both classes, applied by a timer step to one queued message
\* (AddrX, [v]) under four rules on AddrX that share the ranges and the clamp
\* flag: a character rule and a generic rule, each without and with invert.
\* The ends of the input and the output range, in tenths: every order of the
\* ends and the degenerate range occur.
RangeEnds == {0 - 10, 0, 20}
\* The values the sender emits, in tenths: below, inside and above the ranges.
Inputs == {0 - 20, 0 - 10, 0 - 5, 0, 5, 20, 30}

WithRange(item, min_in, max_in, min_out, max_out, clamp, invert) ==
    [item EXCEPT !.min_in = min_in, !.max_in = max_in,
                 !.min_out = min_out, !.max_out = max_out,
                 !.clamp = clamp, !.invert = invert]

MapRules(min_in, max_in, min_out, max_out, clamp) ==
    << WithRange(CharShape, min_in, max_in, min_out, max_out, clamp, FALSE),
       WithRange(CharShape, min_in, max_in, min_out, max_out, clamp, TRUE),
       WithRange(GenericX, min_in, max_in, min_out, max_out, clamp, FALSE),
       WithRange(GenericX, min_in, max_in, min_out, max_out, clamp, TRUE) >>

\* The state after the rules were configured, one start_server call on the
\* default port has succeeded and one message was received and pushed.
MapInit ==
    /\ running = TRUE
    /\ server = 1
    /\ dispatcher = 1
    /\ server_thread = 1
    /\ \E v \in Inputs :
          /\ senders = {Payload(AddrX, <<OscFloat(v)>>)}
          /\ msg_queue = <<Queued(Datagram(1, Payload(AddrX, <<OscFloat(v)>>)), 1)>>
    /\ npushed = 1
    /\ nrecv = 1
    /\ pythonosc_imported = TRUE
    /\ nsrv = 1
    /\ thr = [k \in Servers |->
                IF k = 1 THEN [pc |-> "check", port |-> DEFAULT_OSC_PORT]
                ELSE [pc |-> "none", port |-> 0]]
    /\ inflight = EmptyBag
    /\ main_pc = "idle"
    /\ messages_batch = <<>>
    /\ last_drained = 0
    /\ last_op = "start:ok"
    /\ \E min_in \in RangeEnds, max_in \in RangeEnds, min_out \in RangeEnds,
          max_out \in RangeEnds, clamp \in BOOLEAN :
          config = MapRules(min_in, max_in, min_out, max_out, clamp)
    /\ table = <<>>
    /\ updates_to_apply = <<>>
    /\ tick_start_queue = <<>>
    /\ napplied = 0
    /\ view_updates = 0
    /\ last_build = <<>>
    /\ npushed_at_edit = 0
    /\ timers = 1
    /\ timer_installed = TRUE

\* The host runs the timer step.
MapNext ==
    \/ \E build \in BuildEnvs : osc_timer_step_extended(build)
    \/ timer_get_nowait
    \/ timer_resolve
    \/ \E fail_at \in 0 .. Len(updates_to_apply) : timer_apply(fail_at)

MapSpec == MapInit /\ [][MapNext]_vars

\* ---------------------------------------------------------------- operators and the host's timers
\* Mutant: the lookup returns the custom property "_osc_timer_installed".
getattr_reads_custom_property == timer_installed

\* `getattr(scn, "_osc_timer_installed", False)` of OSC_OT_Start.execute.
\* `scn["_osc_timer_installed"] = True` stores the flag as a custom (ID)
\* property, which the host exposes through item access only; attribute
\* lookup on a Scene sees its registered properties and Python attributes,
\* and "_osc_timer_installed" is neither: getattr returns its default.
getattr_osc_timer_installed == FALSE

\* OSC_OT_Start.execute: start_server, and when it returned no error message,
\* the registration of the timer callback.  bpy.app.timers.register appends
\* the callback to the host's list whether or not the function is already in
\* it.  (An exception of start_server leaves execute before the registration.)
OSC_OT_Start(port, env) ==
    /\ start_server_call(port, env)
    /\ IF last_op' = "start:ok" /\ ~getattr_osc_timer_installed THEN
            /\ timers' = timers + 1
            /\ timer_installed' = TRUE
       ELSE UNCHANGED host_timers

\* OSC_OT_Stop.execute calls stop_server(), whose second half is
\* stop_server_cleanup.
OSC_OT_Stop == stop_server

\* The host runs one of the scheduled callbacks on the main thread.  A callback
\* that returns None, or raises, is removed from the host's list; one that
\* returns an interval stays in it.
bpy_app_timers_run(build) ==
    /\ timers >= 1
    /\ osc_timer_step_extended_call(build)
    /\ timers' = IF ~running \/ build = "raises" THEN timers - 1 ELSE timers
    /\ UNCHANGED timer_installed

\* The add-on as the user and the host drive it: the operators start and stop
\* the server on the scene's port (scn.osc_port, left at its default), the
\* host runs the registered timer callbacks, and the table build succeeds.
TimerNext ==
    \/ \E env \in StartEnvs : OSC_OT_Start(DEFAULT_OSC_PORT, env)
    \/ OSC_OT_Stop
    \/ stop_server_cleanup
    \/ bpy_app_timers_run("ok")
    \/ timer_get_nowait
    \/ timer_resolve
    \/ \E fail_at \in 0 .. Len(updates_to_apply) : timer_apply(fail_at)
    \/ \E k \in Servers : serve(k)
    \/ \E m \in BagToSet(inflight) : osc_handler(m)

\* The host's event loop runs a scheduled timer callback whenever the main
\* thread is free, and a callback that has begun runs to its end.  Nothing
\* else is assumed: the user need not press Start or Stop, and the threads of
\* the listener may be delayed for ever.
TimerSpec ==
    /\ Init
    /\ [][TimerNext]_vars
    /\ WF_vars(bpy_app_timers_run("ok"))
    /\ WF_vars(timer_get_nowait)
    /\ WF_vars(timer_resolve)
    /\ WF_vars(\E fail_at \in 0 .. Len(updates_to_apply) : timer_apply(fail_at))

TypeOK ==
    /\ timers \in 0 .. MaxStarts
    /\ timer_installed \in BOOLEAN
    /\ running \in BOOLEAN
    /\ server \in {None} \cup Servers
    /\ dispatcher \in {None} \cup Servers
    /\ server_thread \in {None} \cup Servers
    /\ nsrv \in 0 .. MaxStarts
    /\ nrecv \in 0 .. MaxMsgs
    /\ main_pc \in {"idle", "stop_sleep", "tick_drain", "tick_apply"}
    /\ \A k \in Servers : thr[k].pc \in {"none", "unstarted", "check", "handle", "close", "done"}
    /\ Len(msg_queue) <= MaxMsgs

\* ================================================================ claims
StartSteps == \E port \in Ports, env \in StartEnvs : start_server(port, env)
\* The values of last_op that stand for an error message returned by start_server.
StartErrors == {"start:already_started", "start:import_error", "start:socket_error"}
\* The listener threads that passed the loop test and are receiving.
ListenersInLoop == {k \in Servers : Serving(k)}

\* C1: in every reachable state at most one listener thread is executing the
\* serve loop (has passed the test of running and is inside handle_request),
\* whatever sequence of start_server and stop_server calls was made.
C1_AtMostOneListener == Cardinality(ListenersInLoop) <= 1

\* C2: a start_server call made while running is true returns the "already
\* started" error and changes nothing: running, server, dispatcher,
\* server_thread and the queue are unchanged, no server or thread is created
\* and every existing listener stays where it is.
C2_StartWhileRunningChangesNothing ==
    [][(running /\ StartSteps) =>
          /\ last_op' = "start:already_started"
          /\ UNCHANGED <<running, server, dispatcher, server_thread, msg_queue>>
          /\ UNCHANGED <<nsrv, thr, inflight>>]_vars

C2_Witness ==
    /\ last_op = "start:already_started"
    /\ running
    /\ server_thread # None
    /\ InLoop(server_thread)

\* C3: a start_server call on a stopped server whose bind fails returns an
\* error message and leaves the server stopped: running is false, server and
\* server_thread are None, no server object or thread is created, and if no
\* listener thread existed before the call none exists after it.
C3_BindFailureLeavesStopped ==
    [][(/\ ~running
        /\ pythonosc_imported
        /\ \E port \in Ports, env \in StartEnvs :
              BindFails(port, env) /\ start_server(port, env)) =>
          /\ last_op' \in StartErrors
          /\ running' = FALSE
          /\ server' = None
          /\ server_thread' = None
          /\ UNCHANGED <<nsrv, thr>>
          /\ (\A k \in Servers : ~Alive(k)) => (\A k \in Servers : ~Alive(k))']_vars

C3_Witness ==
    /\ last_op = "start:socket_error"
    /\ ~running
    /\ server = None
    /\ server_thread = None
    /\ \A k \in Servers : ~Alive(k)

\* C4: a start_server call on a stopped server whose bind succeeds and whose
\* thread spawn fails ends with running false and an error message returned.
C4_SpawnFailureLeavesStopped ==
    [][(/\ ~running
        /\ pythonosc_imported
        /\ \E port \in Ports :
              ~BindFails(port, "spawn_fail") /\ start_server(port, "spawn_fail")) =>
          /\ running' = FALSE
          /\ last_op' \in StartErrors]_vars

\* C5: stop_server called while running is false changes no field of the
\* server state, and a stop_server call that directly follows a completed
\* stop_server changes nothing either.
C5_StopIsIdempotent ==
    [][((~running \/ last_op = "stop:done") /\ stop_server) =>
          /\ UNCHANGED <<running, server, dispatcher, server_thread, msg_queue>>
          /\ UNCHANGED <<main_pc, nsrv, thr, inflight>>
          /\ last_op' = "stop:noop"]_vars

C5_Witness ==
    /\ last_op = "stop:noop"
    /\ ~running
    /\ msg_queue # <<>>

\* C6: a message received during one start..stop session is never drained by
\* a timer step of a later session.
C6_NoMessageSurvivesStop ==
    \A i \in 1 .. Len(messages_batch) :
        messages_batch[i].sess # None => messages_batch[i].sess = nsrv

\* C7: once stop_server has cleared the flag of a running server, the listener
\* thread of that server eventually leaves its loop and closes its socket.
C7_StoppedListenerExits ==
    \A k \in Servers :
        (main_pc = "stop_sleep" /\ server = k /\ Alive(k)) ~> (thr[k].pc = "done")

\* C8: every step that changes running, server, dispatcher or server_thread
\* is a step of start_server or stop_server; the serve() threads, the request
\* handlers and the timer step never write them.
C8_OnlyStartStopWriteLifecycle ==
    [][(<<running, server, dispatcher, server_thread>>'
            # <<running, server, dispatcher, server_thread>>) =>
          (StartSteps \/ stop_server \/ stop_server_cleanup)]_vars

C8_Witness ==
    /\ running
    /\ last_op = "tick:applied"
    /\ \E k \in Servers : thr[k].pc = "done"

\* C9: messages are drained in the order they were pushed: the batch of a timer
\* step is in push order, and every message still queued was pushed after
\* every message drained so far (in this timer step or an earlier one).
C9_DrainedInPushOrder ==
    /\ \A i, j \in 1 .. Len(messages_batch) :
          i < j => messages_batch[i].seq < messages_batch[j].seq
    /\ \A i \in 1 .. Len(messages_batch) : messages_batch[i].seq <= last_drained
    /\ \A i \in 1 .. Len(msg_queue) : msg_queue[i].seq > last_drained
    /\ \A i, j \in 1 .. Len(msg_queue) : i < j => msg_queue[i].seq < msg_queue[j].seq

C9_Witness ==
    /\ Len(messages_batch) = 2
    /\ messages_batch[1].seq < messages_batch[2].seq

\* C10: the queue has a finite capacity C that its length never exceeds: a
\* push made at C messages is dropped.  (The listeners of one behaviour
\* receive MaxMsgs datagrams, so a capacity that binds is below MaxMsgs.)
C10_QueueNeverExceedsCapacity ==
    \E C \in 1 .. (MaxMsgs - 1) : Len(msg_queue) <= C

\* The push numbers of the messages in a sequence of queued messages.
Seqs(q) == {q[i].seq : i \in 1 .. Len(q)}

\* C11: each pushed message is drained at most once.  A step that drains a
\* message takes one the timer step never drained before (its push number is
\* above that of every message drained so far) and removes it from the queue;
\* no step puts a drained message back, whether it produced a command or not:
\* the queue and the batch never hold the same message, the batch holds no
\* message twice, and every queued message is one that was never drained.
C11_DrainedAtMostOnce ==
    [][/\ (Len(messages_batch') > Len(messages_batch)) =>
            LET m == messages_batch'[Len(messages_batch')]
            IN  /\ m.seq > last_drained
                /\ last_drained' = m.seq
                /\ m.seq \notin Seqs(messages_batch)
                /\ m.seq \notin Seqs(msg_queue')
                /\ Len(msg_queue') = Len(msg_queue) - 1
       /\ last_drained' >= last_drained
       /\ Seqs(msg_queue') \cap Seqs(messages_batch') = {}
       /\ \A n \in Seqs(msg_queue') : n > last_drained']_vars

\* A second timer step holds message 2 only; the message resolved to no
\* command, and message 1 was drained by an earlier timer step.
C11_Witness ==
    /\ main_pc = "tick_apply"
    /\ updates_to_apply = <<>>
    /\ Len(messages_batch) = 1
    /\ messages_batch[1].seq = 2
    /\ last_op = "tick:resolved"

\* C12: a timer step that starts while running is false returns None at once:
\* it takes nothing from the queue, builds no table, produces no update
\* command, applies nothing and requests no refresh.
C12_StoppedTickDoesNothing ==
    [][(~running /\ \E build \in BuildEnvs : osc_timer_step_extended(build)) =>
          /\ last_op' = "tick:None"
          /\ main_pc' = "idle"
          /\ UNCHANGED <<msg_queue, messages_batch, last_drained>>
          /\ UNCHANGED <<table, updates_to_apply, napplied, view_updates>>]_vars

\* The timer step returned None although a message was waiting in the queue.
C12_Witness ==
    /\ last_op = "tick:None"
    /\ ~running
    /\ msg_queue # <<>>
    /\ table = <<>>

\* The values of last_op of a timer step that returned 0.01 (as opposed to
\* "tick:None"): `return 0.01` after an empty batch, and the final
\* `return 0.01` after the apply loop or after its except clause.
TickRescheduled == {"tick:idle", "tick:applied", "tick:apply_error"}
\* The main thread is inside the timer step.
InTick == main_pc \in {"tick_drain", "tick_apply"}

C14_DrainsAtMostMaxPerTick ==
    /\ Len(messages_batch) <= max_per_tick
    /\ (main_pc = "tick_apply" /\ Len(tick_start_queue) > max_per_tick) =>
          /\ Len(messages_batch) = max_per_tick
          /\ \A i \in 1 .. max_per_tick : messages_batch[i].seq = tick_start_queue[i]
          /\ Len(msg_queue) >= Len(tick_start_queue) - max_per_tick
          /\ \A j \in 1 .. (Len(tick_start_queue) - max_per_tick) :
                msg_queue[j].seq = tick_start_queue[max_per_tick + j]

\* The queue held max_per_tick + 1 messages when the timer step began; the
\* listener pushed another one during the drain.
C14_Witness ==
    /\ main_pc = "tick_apply"
    /\ Len(tick_start_queue) = max_per_tick + 1
    /\ Len(messages_batch) = max_per_tick
    /\ Len(msg_queue) = 2
    /\ last_op = "tick:resolved"

\* The commands of updates_to_apply that come from the message pushed as seq.
UpdatesOf(seq) == SelectSeq(updates_to_apply, LAMBDA c : c.msg = seq)
\* The message's address is a key of the table.
Routed(m) == m.address \in DOMAIN table

\* C15: a drained message whose address has no entry in the table produces no
\* update command, the resolution reaches its end without an error, and the
\* commands of every other message of the batch are those the message
\* produces by itself.
C15_UnroutedMessageIsSkipped ==
    main_pc = "tick_apply" =>
        /\ \A i \in 1 .. Len(messages_batch) :
              ~Routed(messages_batch[i]) => UpdatesOf(messages_batch[i].seq) = <<>>
        /\ \A i \in 1 .. Len(messages_batch) :
              Routed(messages_batch[i]) =>
                  UpdatesOf(messages_batch[i].seq) = message_updates(table, messages_batch[i])
        /\ \A j \in 1 .. Len(updates_to_apply) :
              \E i \in 1 .. Len(messages_batch) :
                  /\ messages_batch[i].seq = updates_to_apply[j].msg
                  /\ Routed(messages_batch[i])

\* The first message of the batch has no table entry, the second one has and
\* produced a command.
C15_Witness ==
    /\ main_pc = "tick_apply"
    /\ Len(messages_batch) = 2
    /\ ~Routed(messages_batch[1])
    /\ UpdatesOf(messages_batch[2].seq) # <<>>

\* The positions of the numeric arguments (int or float) of a message.
NumericPositions(m) == {k \in 1 .. Len(m.args) : m.args[k].type \in {"int", "float"}}
\* The position of the first numeric argument of a message that has one.
FirstNumericPosition(m) ==
    CHOOSE k \in NumericPositions(m) : \A j \in NumericPositions(m) : k <= j
\* The mapping object of the rule a command comes from.
RuleOf(c) == Mapping(config[c.rule], c.rule)

\* C16: the value mapped for a drained message is its first numeric argument
\* in argument order: every command of the message carries the rule's
\* map_value of that argument, whatever non-numeric arguments precede it and
\* whatever numeric arguments follow it; a message without a numeric argument
\* produces no command.
C16_FirstNumericArgumentIsUsed ==
    main_pc = "tick_apply" =>
        \A i \in 1 .. Len(messages_batch) :
            LET m == messages_batch[i]
                cmds == UpdatesOf(m.seq)
            IN  IF NumericPositions(m) = {} THEN cmds = <<>>
                ELSE \A j \in 1 .. Len(cmds) :
                        cmds[j].value = map_value(RuleOf(cmds[j]), m.args[FirstNumericPosition(m)].val)

\* A message whose first argument is a string, followed by two different
\* numbers, produced a command.
C16_Witness ==
    /\ main_pc = "tick_apply"
    /\ \E i \in 1 .. Len(messages_batch) :
          /\ Cardinality(NumericPositions(messages_batch[i])) = 2
          /\ FirstNumericPosition(messages_batch[i]) = 2
          /\ UpdatesOf(messages_batch[i].seq) # <<>>

\* The table routes message m to the rule at position r of config.
RoutedTo(m, r) ==
    /\ m.address \in DOMAIN table
    /\ \E k \in 1 .. Len(table[m.address]) : table[m.address][k].rule = r

\* C17 (as stated): a drained message is routed to a rule if and only if its
\* address equals the address string configured in the rule, character for
\* character.
C17_ExactConfiguredAddressMatch ==
    main_pc = "tick_apply" =>
        \A i \in 1 .. Len(messages_batch), r \in 1 .. Len(config) :
            RoutedTo(messages_batch[i], r) <=> (messages_batch[i].address = config[r].address)

\* C17 (amended): a drained message is routed to a rule if and only if its
\* address equals the rule's configured address with the leading and trailing
\* whitespace removed; the address of the message is taken as received.
C17_StrippedConfiguredAddressMatch ==
    main_pc = "tick_apply" =>
        \A i \in 1 .. Len(messages_batch), r \in 1 .. Len(config) :
            RoutedTo(messages_batch[i], r) <=>
                (messages_batch[i].address = strip(config[r].address))

\* A message was routed to a rule whose configured address differs from the
\* address of the message by a trailing space, and produced a command.
C17_Witness ==
    /\ main_pc = "tick_apply"
    /\ \E j \in 1 .. Len(updates_to_apply), i \in 1 .. Len(messages_batch) :
          /\ updates_to_apply[j].msg = messages_batch[i].seq
          /\ config[updates_to_apply[j].rule].address # messages_batch[i].address
          /\ RoutedTo(messages_batch[i], updates_to_apply[j].rule)

\* The positions in config of the rules registered on the address of m.
RulesOn(m) == {r \in 1 .. Len(config) : strip(config[r].address) = m.address}
\* The targets an item names: a generic item its data path; a character item
\* a shape key (when shapekey_name is not blank) and a bone (when bone_name
\* and armature_name are not blank).
Targets(item) ==
    IF item.kind = "generic" THEN 1
    ELSE (IF strip(item.shapekey_name) # <<>> THEN 1 ELSE 0)
         + (IF strip(item.bone_name) # <<>> /\ strip(item.armature_name) # <<>> THEN 1 ELSE 0)
\* Rule a comes before rule b in the list the table holds for their address:
\* character rules before generic rules, and within one collection in the
\* order of insertion.
TableBefore(a, b) ==
    \/ config[a].kind = "char" /\ config[b].kind = "generic"
    \/ config[a].kind = config[b].kind /\ a < b

\* C18 (as stated): when exactly two rules A and B are registered on the
\* address of a drained message with a numeric value, A inserted before B, the
\* message produces exactly two commands, A's first and B's second, whatever
\* the kinds of the rules.
C18_TwoCommandsInInsertionOrder ==
    main_pc = "tick_apply" =>
        \A i \in 1 .. Len(messages_batch) :
            LET m == messages_batch[i]
                cmds == UpdatesOf(m.seq)
            IN  (NumericPositions(m) # {} /\ Cardinality(RulesOn(m)) = 2) =>
                    /\ Len(cmds) = 2
                    /\ \A a, b \in RulesOn(m) :
                          a < b => (cmds[1].rule = a /\ cmds[2].rule = b)

\* C18 (amended): the commands of a message come rule by rule in table order
\* (character rules before generic rules, insertion order within each kind),
\* each rule contributing one command per target it names; with two rules A
\* and B of one target each, A before B in table order, that is exactly two
\* commands, A's first and B's second.
C18_CommandsInTableOrder ==
    main_pc = "tick_apply" =>
        \A i \in 1 .. Len(messages_batch) :
            LET m == messages_batch[i]
                cmds == UpdatesOf(m.seq)
            IN  NumericPositions(m) # {} =>
                    /\ \A j, k \in 1 .. Len(cmds) :
                          j < k => \/ cmds[j].rule = cmds[k].rule
                                   \/ TableBefore(cmds[j].rule, cmds[k].rule)
                    /\ \A j \in 1 .. Len(cmds) : cmds[j].rule \in RulesOn(m)
                    /\ \A r \in RulesOn(m) :
                          Len(SelectSeq(cmds, LAMBDA c : c.rule = r)) = Targets(config[r])
                    /\ \A a, b \in RulesOn(m) :
                          (/\ Cardinality(RulesOn(m)) = 2
                           /\ TableBefore(a, b)
                           /\ Targets(config[a]) = 1
                           /\ Targets(config[b]) = 1) =>
                              (Len(cmds) = 2 /\ cmds[1].rule = a /\ cmds[2].rule = b)

\* A generic rule was inserted before a character rule on the same address;
\* a message produced two commands, the character rule's first.
C18_Witness ==
    /\ main_pc = "tick_apply"
    /\ Len(config) = 2
    /\ config[1].kind = "generic"
    /\ config[2].kind = "char"
    /\ \E i \in 1 .. Len(messages_batch) :
          LET cmds == UpdatesOf(messages_batch[i].seq)
          IN  Len(cmds) = 2 /\ cmds[1].rule = 2 /\ cmds[2].rule = 1

\* The commands of message m that come from the rule at position r.
UpdatesOfRule(m, r) == SelectSeq(UpdatesOf(m.seq), LAMBDA c : c.rule = r)
\* Every command in cmds carries the rule's map_value of the value of m.
CarryMapValue(cmds, m) ==
    \A j \in 1 .. Len(cmds) :
        cmds[j].value = map_value(RuleOf(cmds[j]), m.args[FirstNumericPosition(m)].val)

\* C19 (as stated): for a drained message with a numeric value, every rule
\* registered on its address contributes at least one command, never zero,
\* each carrying the rule's map_value of the value; a character rule with a
\* shape key target and a bone target contributes two.
C19_EveryRuleContributes ==
    main_pc = "tick_apply" =>
        \A i \in 1 .. Len(messages_batch) :
            LET m == messages_batch[i]
            IN  NumericPositions(m) # {} =>
                    \A r \in RulesOn(m) :
                        /\ Len(UpdatesOfRule(m, r)) >= 1
                        /\ CarryMapValue(UpdatesOfRule(m, r), m)
                        /\ Targets(config[r]) = 2 => Len(UpdatesOfRule(m, r)) = 2

\* C19 (amended): for a drained message with a numeric value, every rule
\* registered on its address contributes one command per target it names,
\* each carrying the rule's map_value of the value: a generic rule one; a
\* character rule a "shapekey" command when it names a shape key, then a
\* "bone" command when it names a bone and an armature, so two with both
\* and none with neither.
C19_OneCommandPerTarget ==
    main_pc = "tick_apply" =>
        \A i \in 1 .. Len(messages_batch) :
            LET m == messages_batch[i]
            IN  NumericPositions(m) # {} =>
                    \A r \in RulesOn(m) :
                        LET cmds == UpdatesOfRule(m, r)
                        IN  /\ Len(cmds) = Targets(config[r])
                            /\ CarryMapValue(cmds, m)
                            /\ config[r].kind = "generic" => cmds[1].kind = "generic"
                            /\ (config[r].kind = "char" /\ Len(cmds) = 2) =>
                                  (cmds[1].kind = "shapekey" /\ cmds[2].kind = "bone")
                            /\ (config[r].kind = "char" /\ Len(cmds) = 1) =>
                                  cmds[1].kind = IF strip(config[r].shapekey_name) # <<>>
                                                 THEN "shapekey" ELSE "bone"

\* A message with a numeric value was routed to a character rule that names
\* no target, which contributed no command, and to another rule, which did.
C19_Witness ==
    /\ main_pc = "tick_apply"
    /\ \E i \in 1 .. Len(messages_batch) :
          LET m == messages_batch[i]
          IN  /\ NumericPositions(m) # {}
              /\ \E r \in RulesOn(m) : Targets(config[r]) = 0 /\ UpdatesOfRule(m, r) = <<>>
              /\ UpdatesOf(m.seq) # <<>>

\* The message carries one argument, a number: (address, [v]).
SingleValue(m) == Len(m.args) = 1 /\ NumericPositions(m) = {1}
\* The rule maps [0, 1] to [0, 1] with clamp (the scenario's rule).
UnitClamped(item) ==
    /\ item.min_in = 0
    /\ item.max_in = 10
    /\ item.min_out = 0
    /\ item.max_out = 10
    /\ item.clamp

\* C20 (as stated): a message (address, [v]) pushed by the listener of a
\* running server, for an address that has exactly one configured rule,
\* yields in the timer step that drains it exactly one command, whose value is
\* the rule's map_value(v).
C20_OneRuleOneCommand ==
    main_pc = "tick_apply" =>
        \A i \in 1 .. Len(messages_batch) :
            LET m == messages_batch[i]
                cmds == UpdatesOf(m.seq)
            IN  (SingleValue(m) /\ Cardinality(RulesOn(m)) = 1) =>
                    /\ Len(cmds) = 1
                    /\ CarryMapValue(cmds, m)

\* C20 (amended): such a message yields exactly one command, whose value is
\* the rule's map_value(v), when the one rule names exactly one target; the
\* value is 0.5 for v = 0.5 on the clamped rule from [0, 1] to [0, 1], and 0.8
\* for v = 0.2 on the same rule with invert.
C20_OneTargetOneCommand ==
    main_pc = "tick_apply" =>
        \A i \in 1 .. Len(messages_batch) :
            LET m == messages_batch[i]
                cmds == UpdatesOf(m.seq)
            IN  \A r \in RulesOn(m) :
                    (/\ SingleValue(m)
                     /\ m.sess = server
                     /\ RulesOn(m) = {r}
                     /\ Targets(config[r]) = 1) =>
                        /\ Len(cmds) = 1
                        /\ cmds[1].rule = r
                        /\ CarryMapValue(cmds, m)
                        /\ (UnitClamped(config[r]) /\ ~config[r].invert /\ m.args[1].val = 5)
                              => cmds[1].value = [num |-> 5, den |-> 1]
                        /\ (UnitClamped(config[r]) /\ config[r].invert /\ m.args[1].val = 2)
                              => cmds[1].value = [num |-> 8, den |-> 1]

\* The only rule inverts; the message ("/x", [0.2]) yielded one command with
\* the value 0.8.
C20_Witness ==
    /\ main_pc = "tick_apply"
    /\ Len(config) = 1
    /\ config[1].invert
    /\ \E i \in 1 .. Len(messages_batch) :
          /\ SingleValue(messages_batch[i])
          /\ messages_batch[i].args[1].val = 2
          /\ Len(UpdatesOf(messages_batch[i].seq)) = 1
          /\ UpdatesOf(messages_batch[i].seq)[1].value = [num |-> 8, den |-> 1]

\* C21: when the apply call of one command of a timer step raises, every
\* other command of that timer step is still applied, those after the failing
\* one included: all commands but one have had their apply call return.
C21_ApplyErrorIsIsolated ==
    last_op = "tick:apply_error" => napplied = Len(updates_to_apply) - 1

\* C22: an error raised by an apply call never stops the timer: the timer step
\* in which it occurs catches it and returns 0.01 (it neither raises to the
\* host nor returns None), running is unchanged, the queue is left as it is,
\* and the main thread is free to run the next timer step.
C22_ApplyErrorKeepsTimer ==
    [][(\E fail_at \in 1 .. Len(updates_to_apply) : timer_apply(fail_at)) =>
          /\ last_op' = "tick:apply_error"
          /\ last_op' \in TickRescheduled
          /\ main_pc' = "idle"
          /\ UNCHANGED <<running, server, dispatcher, server_thread, msg_queue>>]_vars

\* An apply call raised after one command had been applied; the timer step
\* returned and the server is still running.
C22_Witness ==
    /\ last_op = "tick:apply_error"
    /\ running
    /\ main_pc = "idle"
    /\ napplied = 1
    /\ Len(updates_to_apply) >= 2

\* C23: a timer step that produced at least one update command requests
\* exactly one view-layer update, after all of its commands have been
\* applied; a timer step that produced no command requests none.
C23_OneRefreshPerTick ==
    /\ last_op \in {"tick:applied", "tick:apply_error"} =>
          /\ view_updates = IF updates_to_apply # <<>> THEN 1 ELSE 0
          /\ view_updates = 1 => napplied = Len(updates_to_apply)
    /\ last_op = "tick:idle" => view_updates = 0

\* C24: when the table build of a timer step fails, the timer step behaves as
\* with an empty table: no exception reaches the host, the timer step goes on
\* with a table without entries and so produces no update command.
C24_BuildFailureIsEmptyTable ==
    [][(running /\ osc_timer_step_extended("raises")) =>
          /\ last_op' # "tick:raised"
          /\ InTick'
          /\ table' = <<>>
          /\ updates_to_apply' = <<>>]_vars

C26_RoutedWithCurrentRules ==
    main_pc = "tick_apply" =>
        updates_to_apply =
            resolve_batch(build_mapping_table_extended(config), messages_batch)

\* After an earlier timer step drained the first messages, a message queued
\* before the latest change of the rules was mapped by a rule whose invert
\* flag that change or an earlier one has set.
C26_Witness ==
    /\ main_pc = "tick_apply"
    /\ messages_batch # <<>>
    /\ messages_batch[1].seq > 1
    /\ \A i \in DOMAIN messages_batch : messages_batch[i].seq <= npushed_at_edit
    /\ updates_to_apply # <<>>
    /\ \E i \in DOMAIN updates_to_apply :
          /\ config[updates_to_apply[i].rule].invert
          /\ updates_to_apply[i].value = map_value(Mapping(config[updates_to_apply[i].rule],
                                                           updates_to_apply[i].rule), 2)

\* The rational numbers, as fractions in lowest terms.
Q(n) == Frac(n, 1)
QAdd(a, b) == Frac(a.num * b.den + b.num * a.den, a.den * b.den)
QSub(a, b) == Frac(a.num * b.den - b.num * a.den, a.den * b.den)
QMul(a, b) == Frac(a.num * b.num, a.den * b.den)
QDiv(a, b) == Frac(a.num * b.den, a.den * b.num)
QLe(a, b) == a.num * b.den <= b.num * a.den
QMin(a, b) == IF QLe(a, b) THEN a ELSE b
QMax(a, b) == IF QLe(a, b) THEN b ELSE a
Min(a, b) == IF a <= b THEN a ELSE b
Max(a, b) == IF a <= b THEN b ELSE a

\* The commands of a timer step with the rule and the input value each was
\* computed from: the triples <<rule item, v, mapped value>>.
Mapped ==
    { <<config[updates_to_apply[j].rule],
        messages_batch[i].args[FirstNumericPosition(messages_batch[i])].val,
        updates_to_apply[j].value>> :
        <<i, j>> \in { p \in (DOMAIN messages_batch) \X (DOMAIN updates_to_apply) :
                        updates_to_apply[p[2]].msg = messages_batch[p[1]].seq } }
\* The value lies in the closed output range of the rule.
InOutputRange(item, value) ==
    /\ QLe(Q(Min(item.min_out, item.max_out)), value)
    /\ QLe(value, Q(Max(item.min_out, item.max_out)))
\* The rules differ in the invert flag only.
InvertTwins(a, b) == a.invert # b.invert /\ [a EXCEPT !.invert = b.invert] = b
\* The rules differ in the kind and its target fields only.
SameRangeAndFlags(a, b) ==
    /\ a.min_in = b.min_in /\ a.max_in = b.max_in
    /\ a.min_out = b.min_out /\ a.max_out = b.max_out
    /\ a.clamp = b.clamp /\ a.invert = b.invert

\* C27: for every rule with clamp set and every input value, the mapped value
\* lies between min(min_out, max_out) and max(min_out, max_out) inclusive,
\* for both kinds of rule and every order of the ends of the two ranges.
C27_ClampedValueInOutputRange ==
    main_pc = "tick_apply" =>
        \A c \in Mapped : c[1].clamp => InOutputRange(c[1], c[3])

\* A clamping rule of each kind with max_in < min_in and max_out < min_out
\* mapped a value below its input range to an end of its output range.
C27_Witness ==
    /\ main_pc = "tick_apply"
    /\ \A kind \in {"char", "generic"} :
          \E c \in Mapped :
              /\ c[1].kind = kind /\ c[1].clamp
              /\ c[1].max_in < c[1].min_in /\ c[1].max_out < c[1].min_out
              /\ c[2] < c[1].max_in
              /\ c[3] \in {Q(c[1].min_out), Q(c[1].max_out)}
              /\ InOutputRange(c[1], c[3])

\* C28: for every rule with min_in = max_in and every input value, the mapped
\* value is min_out without invert and max_out with invert, whatever the
\* value and the clamp flag are.
C28_DegenerateInputRange ==
    main_pc = "tick_apply" =>
        \A c \in Mapped :
            c[1].min_in = c[1].max_in =>
                c[3] = IF c[1].invert THEN Q(c[1].max_out) ELSE Q(c[1].min_out)

\* Rules with min_in = max_in and different ends of the output range, without
\* clamp, mapped a value other than min_in: to min_out and, with invert, to
\* max_out.
C28_Witness ==
    /\ main_pc = "tick_apply"
    /\ \E c \in Mapped, d \in Mapped :
          /\ c[1].min_in = c[1].max_in /\ c[2] # c[1].min_in /\ ~c[1].clamp
          /\ c[1].min_out # c[1].max_out
          /\ InvertTwins(c[1], d[1]) /\ ~c[1].invert
          /\ c[3] = Q(c[1].min_out)
          /\ d[3] = Q(d[1].max_out)

reference_map_value(item, v) ==
    LET t == IF item.max_in # item.min_in
             THEN QDiv(Q(v - item.min_in), Q(item.max_in - item.min_in))
             ELSE Q(0)
        clamped == IF item.clamp THEN QMax(Q(0), QMin(Q(1), t)) ELSE t
        inverted == IF item.invert THEN QSub(Q(1), clamped) ELSE clamped
    IN  QAdd(Q(item.min_out), QMul(inverted, Q(item.max_out - item.min_out)))

\* C30: the mapped value of a rule of either kind is the value of the
\* reference algorithm, for every rule and every input value, and a character
\* rule and a generic rule with the same ranges and flags map the same input
\* value to the same value.
C30_ReferenceAlgorithm ==
    main_pc = "tick_apply" =>
        /\ \A c \in Mapped : c[3] = reference_map_value(c[1], c[2])
        /\ \A c \in Mapped, d \in Mapped :
              (SameRangeAndFlags(c[1], d[1]) /\ c[2] = d[2]) => c[3] = d[3]

\* A character rule and a generic rule with the same ranges and flags,
\* without clamp, mapped a value outside the input range to one value
\* outside the output range.
C30_Witness ==
    /\ main_pc = "tick_apply"
    /\ \E c \in Mapped, d \in Mapped :
          /\ c[1].kind = "char" /\ d[1].kind = "generic"
          /\ SameRangeAndFlags(c[1], d[1]) /\ c[2] = d[2]
          /\ ~c[1].clamp
          /\ c[3] = d[3]
          /\ ~InOutputRange(c[1], c[3])
          /\ c[3] = reference_map_value(c[1], c[2])

\* The steps of the background threads: a serve() loop or a request handler.
ListenerStep ==
    \/ \E k \in Servers : serve(k)
    \/ \E m \in BagToSet(inflight) : osc_handler(m)
\* The steps of the timer step on the main thread.
TickStep ==
    \/ \E build \in BuildEnvs : osc_timer_step_extended(build)
    \/ timer_get_nowait
    \/ timer_resolve
    \/ \E fail_at \in 0 .. Len(updates_to_apply) : timer_apply(fail_at)

\* C31: the listener threads never touch the targets: a step of a serve()
\* loop or of osc_handler writes no state shared with the main thread except
\* the message queue, to which it appends one message at most; the rules,
\* the command list, the count of applied commands and the refresh requests
\* change in steps of the timer step only.
C31_ListenerOnlyAppendsToQueue ==
    [][/\ ListenerStep =>
            /\ UNCHANGED <<running, server, dispatcher, server_thread, main_pc, messages_batch,
                           config, table, updates_to_apply, napplied, view_updates>>
            /\ \/ msg_queue' = msg_queue
               \/ /\ Len(msg_queue') = Len(msg_queue) + 1
                  /\ SubSeq(msg_queue', 1, Len(msg_queue)) = msg_queue
       /\ (napplied' # napplied \/ view_updates' # view_updates
             \/ updates_to_apply' # updates_to_apply) => TickStep]_vars

\* While the timer step stood between its resolution loop and its apply loop
\* with commands to apply, the listener pushed a message that was not in the
\* queue when the timer step began.
C31_Witness ==
    /\ main_pc = "tick_apply"
    /\ updates_to_apply # <<>>
    /\ last_drained < npushed
    /\ msg_queue # <<>>
    /\ \A i \in DOMAIN msg_queue :
          msg_queue[i].seq \notin {tick_start_queue[j] : j \in DOMAIN tick_start_queue}

\* C32: a receive timeout or an error in handle_request() does not end the
\* listener: whatever handle_request() does, the serve() loop goes back to
\* its loop test; it leaves the loop only from that test, having read running
\* as false, and it closes the socket after it has left the loop.
C32_ListenerSurvivesReceiveErrors ==
    [][\A k \in Servers :
          /\ (\E outcome \in {"timeout", "error", "datagram"} : handle_request(k, outcome)) =>
                thr'[k].pc = "check"
          /\ (thr[k].pc = "handle" /\ thr'[k] # thr[k]) => thr'[k].pc = "check"
          /\ (thr[k].pc # "close" /\ thr'[k].pc = "close") =>
                (thr[k].pc = "check" /\ ~running)
          /\ (thr[k].pc # "done" /\ thr'[k].pc = "done") => thr[k].pc = "close"]_vars

\* A listener that received every datagram of the behaviour has left its
\* loop and closed its socket after stop_server completed.
C32_Witness ==
    /\ last_op = "stop:done"
    /\ nrecv = MaxMsgs
    /\ \E k \in Servers : k <= nsrv /\ thr[k].pc = "done"

\* The places <<address, position>> of a table at which the entry comes from
\* the item at position r of the configuration.
PlacesOf(tbl, r) ==
    {pl \in UNION {{<<a, k>> : k \in DOMAIN tbl[a]} : a \in DOMAIN tbl} :
        tbl[pl[1]][pl[2]].rule = r}

\* C33: the table of a build holds every configured rule exactly once, in the
\* group of the rule's address (the address the entry carries, which is the
\* item's address stripped), whether or not the rule names a target; in each
\* group the character rules come first, in the order of their collection,
\* and the generic rules after them, in the order of theirs.
C33_TableHoldsEveryRuleOnce ==
    last_build # <<>> =>
        LET cfg == last_build.config
            tbl == last_build.table
        IN  /\ \A r \in DOMAIN cfg :
                  /\ Cardinality(PlacesOf(tbl, r)) = 1
                  /\ \A pl \in PlacesOf(tbl, r) :
                        /\ pl[1] = strip(cfg[r].address)
                        /\ tbl[pl[1]][pl[2]] = Mapping(cfg[r], r)
            /\ \A a \in DOMAIN tbl :
                  /\ tbl[a] # <<>>
                  /\ \A k \in DOMAIN tbl[a] :
                        /\ tbl[a][k].address = a
                        /\ tbl[a][k].rule \in DOMAIN cfg
                  /\ \A j \in DOMAIN tbl[a], k \in DOMAIN tbl[a] :
                        j < k =>
                           /\ ~(IsGeneric(tbl[a][j]) /\ IsChar(tbl[a][k]))
                           /\ tbl[a][j].kind = tbl[a][k].kind => tbl[a][j].rule < tbl[a][k].rule

\* A table was built from a character rule without any target followed by a
\* generic rule on the same address: the group holds both, in this order.
C33_Witness ==
    /\ last_build # <<>>
    /\ last_build.config = <<CharEmpty, GenericX>>
    /\ DOMAIN last_build.table = {AddrX}
    /\ Len(last_build.table[AddrX]) = 2
    /\ IsChar(last_build.table[AddrX][1])
    /\ last_build.table[AddrX][1].shapekey_name = <<>>
    /\ last_build.table[AddrX][1].bone_name = <<>>
    /\ IsGeneric(last_build.table[AddrX][2])

\* The Blender datum a command writes.
TargetOf(c) ==
    IF c.kind = "shapekey" THEN <<"shapekey", c.object_name, c.shapekey_name>>
    ELSE IF c.kind = "bone" THEN <<"bone", c.armature_name, c.bone_name, c.rotation_axis>>
    ELSE <<"generic", c.data_path>>
\* The command list is ordered by message in drain order, then by rule in
\* table order, and for one rule the shape key command precedes the bone
\* command.
CommandsInMessageThenRuleOrder ==
    \A i \in DOMAIN updates_to_apply, j \in DOMAIN updates_to_apply :
        i < j =>
            LET c == updates_to_apply[i]
                d == updates_to_apply[j]
            IN  /\ c.msg <= d.msg
                /\ c.msg = d.msg => (c.rule = d.rule \/ TableBefore(c.rule, d.rule))
                /\ (c.msg = d.msg /\ c.rule = d.rule) =>
                       (c.kind = "shapekey" /\ d.kind = "bone")
\* The positions in the command list of the commands that write target t.
CommandsOn(t) == {i \in DOMAIN updates_to_apply : TargetOf(updates_to_apply[i]) = t}
\* After the apply loop, the last value applied to every target of the command
\* list is the value of the latest drained message that has a command for it.
LastAppliedIsLatest ==
    \A t \in {TargetOf(updates_to_apply[i]) : i \in DOMAIN updates_to_apply} :
        LET applied == {i \in CommandsOn(t) : i <= napplied}
        IN  /\ applied # {}
            /\ \A k \in CommandsOn(t) :
                  updates_to_apply[k].msg <=
                      updates_to_apply[CHOOSE i \in applied : \A h \in applied : h <= i].msg

StartOperatorSteps == \E env \in StartEnvs : OSC_OT_Start(DEFAULT_OSC_PORT, env)
\* The sequence numbers of the messages waiting in the queue.
QueuedSeqs == {msg_queue[i].seq : i \in DOMAIN msg_queue}

C36_AtMostOneTickCallback == timers <= 1

\* A stop_server call has completed and no start_server call has succeeded
\* since: server_thread, which only a successful start sets and only the end
\* of stop_server clears, is empty although a listener was started before.
StoppedSinceLastSuccessfulStart ==
    /\ main_pc # "stop_sleep"
    /\ server_thread = None
    /\ \E k \in Servers : thr[k].pc \notin {"none", "unstarted"}
\* The apply loop of a timer step applies a command or requests the refresh
\* (view_layer.update()).
TickAppliesOrRefreshes ==
    /\ \E fail_at \in 0 .. Len(updates_to_apply) : timer_apply(fail_at)
    /\ napplied' > 0 \/ view_updates' > 0

\* C37: no update command is applied and no refresh is requested while
\* running is false, nor between the completion of a stop_server and the next
\* successful start_server.
C37_NoApplyWhileStopped ==
    [][TickAppliesOrRefreshes => (running /\ ~StoppedSinceLastSuccessfulStart)]_vars

\* C38: whenever no start_server or stop_server call is in progress, running is
\* true exactly when server, dispatcher and server_thread are all set, and
\* false exactly when server and server_thread are empty.
C38_LifecycleFieldsAgree ==
    main_pc # "stop_sleep" =>
        /\ running <=> (server # None /\ dispatcher # None /\ server_thread # None)
        /\ (~running) <=> (server = None /\ server_thread = None)
====
